---- MODULE Spec2Model ----
(***************************************************************************)
(* JetsonScope: the control manager (src/src/control.rs), the health       *)
(* tracker (src/src/health.rs) and the IPC daemon's request handler and    *)
(* collector-drain task (src/src/bin/jetsonscoped.rs).                     *)
(*                                                                         *)
(* Rust Strings that the code parses, formats or compares (control values, *)
(* mode and governor names) are sequences of one-character strings, so     *)
(* that value.parse::<u8>() and format!("{}%", p) are computed.  Option<T> *)
(* is a sequence of length 0 (None) or 1 (Some).  Error messages are pairs *)
(* <<template, argument>>.                                                 *)
(***************************************************************************)
EXTENDS Integers, Sequences, FiniteSets, TLC

\* ---------------------------------------------------------------- bounds
NumCpus == 2
MaxRequests == 2
MaxStats == 2
MaxCalls == 2
MaxPanics == 1
MaxPolls == 6
MaxLines == 2
MaxTicks == 2
MaxConns == 2
MaxFields == 2
MaxParses == 1
MaxJobs == 3
MaxFairJobs == 2

\* ---------------------------------------------------------------- Option
None == <<>>
Some(x) == <<x>>
is_some(o) == Len(o) = 1
unwrap_or(o, d) == IF Len(o) = 1 THEN o[1] ELSE d

\* ---------------------------------------------------------------- strings
V_empty == <<>>
V_on == <<"o", "n">>
V_off == <<"o", "f", "f">>
V_toggle == <<"t", "o", "g", "g", "l", "e">>
V_auto == <<"a", "u", "t", "o">>
V_bogus == <<"z", "z">>
V_MODE_0 == <<"M", "O", "D", "E", "_", "0">>
V_MODE_1 == <<"M", "O", "D", "E", "_", "1">>
V_MAXN == <<"M", "A", "X", "N">>
V_W15 == <<"1", "5", "W">>
V_ondemand == <<"o", "n", "d", "e", "m", "a", "n", "d">>
V_performance == <<"p", "e", "r", "f", "o", "r", "m", "a", "n", "c", "e">>
V_nvhost_podgov == <<"n", "v", "h", "o", "s", "t", "_", "p", "o", "d", "g", "o", "v">>
V_unknown == <<"u", "n", "k", "n", "o", "w", "n">>
V_NvpLine == <<"N", "V", " ", "P", "o", "w", "e", "r", " ", "M", "o", "d", "e", ":", " ", "M", "A", "X", "N">>
V_s30 == <<"3", "0">>
V_s50 == <<"5", "0">>
V_s150 == <<"1", "5", "0">>
V_s300 == <<"3", "0", "0">>
V_s0pct == <<"0", "%">>
V_range == <<"0", "-", "1", "0", "0">>
V_pct == <<"%">>

Digit == {"0", "1", "2", "3", "4", "5", "6", "7", "8", "9"}

DigitVal(c) ==
    CASE c = "0" -> 0 [] c = "1" -> 1 [] c = "2" -> 2 [] c = "3" -> 3
      [] c = "4" -> 4 [] c = "5" -> 5 [] c = "6" -> 6 [] c = "7" -> 7
      [] c = "8" -> 8 [] c = "9" -> 9

DigitChar(d) == <<"0", "1", "2", "3", "4", "5", "6", "7", "8", "9">>[d + 1]

RECURSIVE DecVal(_)
DecVal(s) ==
    IF Len(s) = 0 THEN 0
    ELSE 10 * DecVal(SubSeq(s, 1, Len(s) - 1)) + DigitVal(s[Len(s)])

\* u8::from_str: optional leading '+', then one or more decimal digits,
\* value at most u8::MAX.
U8Max == 255

parse_u8(s) ==
    LET body == IF Len(s) > 0 /\ s[1] = "+" THEN Tail(s) ELSE s IN
    IF Len(body) = 0 \/ (\E i \in 1..Len(body) : body[i] \notin Digit)
    THEN None
    ELSE IF DecVal(body) > U8Max THEN None ELSE Some(DecVal(body))

\* u8 Display
RECURSIVE to_string(_)
to_string(n) ==
    IF n < 10 THEN <<DigitChar(n)>>
    ELSE to_string(n \div 10) \o <<DigitChar(n % 10)>>

contains(list, x) == \E i \in 1..Len(list) : list[i] = x

\* ---------------------------------------------------------------- errors
Msg(template, arg) == <<template, arg>>


\* the templates whose text contains the substring "0-100"
Mentions0to100(m) ==
    m[1] \in {"Valor de fan invalido: {}. Rango valido: 0-100",
              "Invalid fan value (0-100)",
              "fan value debe ser 0-100",
              "valor de fan invalido (0-100)"}

\* Result<T>
Ok(v) == [ok |-> TRUE, val |-> <<v>>, err |-> None]
OkUnit == [ok |-> TRUE, val |-> <<>>, err |-> None]
Err(e) == [ok |-> FALSE, val |-> <<>>, err |-> Some(e)]

\* ---------------------------------------------------------------- host
\* What the control manager reads and writes on the board: files under
\* /etc, /sys and the utilities on PATH.
CpuIds == 1..NumCpus

CpuPath(i) == <<"c", "p", "u">> \o to_string(i - 1)
GpuGovPath == <<"g", "o", "v", "e", "r", "n", "o", "r">>
GpuPowerPath == <<"c", "o", "n", "t", "r", "o", "l">>

\* outcome of the external commands and file writes of one call:
\* show_ok (jetson_clocks --show ran), cmd (ok, nonzero, spawn_err),
\* write (per cpu scaling_governor write), gpu_write (one sysfs write)
AllGood == [show_ok |-> TRUE, cmd |-> "ok", write |-> [i \in CpuIds |-> TRUE],
            gpu_write |-> TRUE]

\* the outcomes that differ from AllGood only in what the named operation
\* consults: "clocks" (jetson_clocks --show and --on/--off), "cmd" (one
\* utility run), "cpu" (the scaling_governor writes), "gpu" (one sysfs write)
OutcomesOf(what) ==
    IF what = "clocks"
    THEN {[AllGood EXCEPT !.show_ok = b, !.cmd = c] :
             b \in BOOLEAN, c \in {"ok", "nonzero", "spawn_err"}}
    ELSE IF what = "cmd"
    THEN {[AllGood EXCEPT !.cmd = c] : c \in {"ok", "nonzero", "spawn_err"}}
    ELSE IF what = "cpu"
    THEN {[AllGood EXCEPT !.write = w] : w \in [CpuIds -> BOOLEAN]}
    ELSE IF what = "gpu"
    THEN {[AllGood EXCEPT !.gpu_write = b] : b \in BOOLEAN}
    ELSE {AllGood}

HostJetson(clocks, has_gov, utils) ==
    [nv_tegra_release |-> TRUE,
     nvpmodel_conf |-> IF utils THEN <<V_MAXN, V_W15>> ELSE <<>>,
     clocks_util |-> utils,
     nvpmodel_util |-> utils,
     clocks |-> clocks,
     fan_hwmon |-> utils,
     fan_util |-> utils,
     cpu_avail |-> <<V_ondemand, V_performance>>,
     cpu_has_gov |-> has_gov,
     cpu_gov |-> [i \in CpuIds |-> V_ondemand],
     gpu_devfreq |-> utils,
     gpu_avail |-> <<V_nvhost_podgov, V_performance>>,
     gpu_gov |-> V_nvhost_podgov,
     gpu_power |-> utils,
     gpu_rail |-> V_auto]

HostGeneric ==
    [HostJetson(FALSE, [i \in CpuIds |-> FALSE], FALSE)
        EXCEPT !.nv_tegra_release = FALSE]

GovPatterns ==
    {[i \in CpuIds |-> TRUE], [i \in CpuIds |-> i = 1], [i \in CpuIds |-> FALSE]}

Hosts ==
    {HostJetson(FALSE, g, TRUE) : g \in GovPatterns}
        \cup {HostJetson(FALSE, [i \in CpuIds |-> TRUE], FALSE), HostGeneric}

\* JetsonHardware as far as the control manager uses it
detect(host) ==
    [is_jetson |-> host.nv_tegra_release,
     nvpmodel_modes |-> IF host.nv_tegra_release THEN host.nvpmodel_conf ELSE <<>>]

mock_hw(is_jetson) ==
    [is_jetson |-> is_jetson, nvpmodel_modes |-> <<V_MODE_0, V_MODE_1>>]

detect_jetson_clocks(host, o) ==
    IF host.clocks_util /\ o.show_ok THEN Some(host.clocks) ELSE None

detect_nvpmodel(host, o) ==
    IF host.nvpmodel_util /\ o.show_ok THEN Some(V_NvpLine) ELSE None

detect_fan_speed(host, o) ==
    IF host.fan_util /\ o.show_ok THEN Some(V_s30) ELSE None

detect_cpu_governors(host) ==
    IF \E i \in CpuIds : host.cpu_has_gov[i] THEN host.cpu_avail ELSE <<>>

detect_current_cpu_governor(host) ==
    IF \E i \in CpuIds : host.cpu_has_gov[i]
    THEN Some(host.cpu_gov[CHOOSE i \in CpuIds :
                 host.cpu_has_gov[i] /\ \A j \in CpuIds : host.cpu_has_gov[j] => i <= j])
    ELSE None

gpu_devfreq_path(host) == IF host.gpu_devfreq THEN Some(GpuGovPath) ELSE None

gpu_power_control_path(host) == IF host.gpu_power THEN Some(GpuPowerPath) ELSE None

detect_gpu_governors(host) ==
    IF is_some(gpu_devfreq_path(host))
    THEN <<host.gpu_avail, Some(host.gpu_gov)>>
    ELSE <<<<>>, None>>

detect_gpu_railgate(host) ==
    IF is_some(gpu_power_control_path(host))
    THEN Some(host.gpu_rail = V_auto)
    ELSE None

\* ---------------------------------------------------------------- ControlManager
\* A manager together with the host it acts on: status and mock are the
\* fields of ControlManager, host is the board, log lists the host actions
\* (utility invocations and sysfs writes) of the current call, ret is the
\* value the call returns.
from_hardware(hardware, mock, host, o) ==
    LET status ==
        IF mock THEN
            LET nvpmodel_modes ==
                    IF hardware.nvpmodel_modes = <<>>
                    THEN <<V_MODE_0, V_MODE_1>>
                    ELSE hardware.nvpmodel_modes
            IN [available |-> TRUE,
                jetson_clocks |-> Some(FALSE),
                fan |-> Some(V_s0pct),
                nvpmodel |-> Some(nvpmodel_modes[1]),
                nvpmodel_modes |-> nvpmodel_modes,
                cpu_governor |-> Some(V_ondemand),
                cpu_governor_modes |-> <<V_ondemand, V_performance>>,
                gpu_governor |-> Some(V_nvhost_podgov),
                gpu_governor_modes |-> <<V_nvhost_podgov, V_performance>>,
                gpu_railgate |-> Some(TRUE),
                supports_fan |-> TRUE,
                supports_nvpmodel |-> TRUE,
                supports_jetson_clocks |-> TRUE,
                supports_cpu_governor |-> TRUE,
                supports_gpu_governor |-> TRUE,
                supports_gpu_railgate |-> TRUE,
                note |-> "Mock mode (no real commands)",
                last_error |-> None]
        ELSE IF hardware.is_jetson THEN
            LET gpu == detect_gpu_governors(host) IN
               [available |-> TRUE,
                jetson_clocks |-> detect_jetson_clocks(host, o),
                fan |-> detect_fan_speed(host, o),
                nvpmodel |-> detect_nvpmodel(host, o),
                nvpmodel_modes |-> host.nvpmodel_conf,
                cpu_governor |-> detect_current_cpu_governor(host),
                cpu_governor_modes |-> detect_cpu_governors(host),
                gpu_governor |-> gpu[2],
                gpu_governor_modes |-> gpu[1],
                gpu_railgate |-> detect_gpu_railgate(host),
                supports_fan |-> host.fan_hwmon,
                supports_nvpmodel |-> host.nvpmodel_conf # <<>>,
                supports_jetson_clocks |-> host.clocks_util,
                supports_cpu_governor |-> detect_cpu_governors(host) # <<>>,
                supports_gpu_governor |-> gpu[1] # <<>>,
                supports_gpu_railgate |-> is_some(detect_gpu_railgate(host)),
                note |-> "Controles listos",
                last_error |-> None]
        ELSE
               [available |-> FALSE,
                jetson_clocks |-> None,
                fan |-> None,
                nvpmodel |-> None,
                nvpmodel_modes |-> <<>>,
                cpu_governor |-> None,
                cpu_governor_modes |-> <<>>,
                gpu_governor |-> None,
                gpu_governor_modes |-> <<>>,
                gpu_railgate |-> None,
                supports_fan |-> FALSE,
                supports_nvpmodel |-> FALSE,
                supports_jetson_clocks |-> FALSE,
                supports_cpu_governor |-> FALSE,
                supports_gpu_governor |-> FALSE,
                supports_gpu_railgate |-> FALSE,
                note |-> "Host no Jetson: modo demo",
                last_error |-> None]
    IN [status |-> status, mock |-> mock, host |-> host, log |-> <<>>, ret |-> OkUnit,
        error |-> None, host_failed |-> FALSE]

ControlInfo(name, value, options, numeric, supported) ==
    [name |-> name,
     value |-> value,
     options |-> options,
     readonly |-> FALSE,
     min |-> IF numeric THEN Some(0) ELSE None,
     max |-> IF numeric THEN Some(100) ELSE None,
     step |-> IF numeric THEN Some(1) ELSE None,
     requires_sudo |-> TRUE,
     supported |-> supported,
     unit |-> IF numeric THEN Some(V_pct) ELSE None]

list_controls(st) ==
    (IF st.supports_jetson_clocks
     THEN <<ControlInfo("jetson_clocks",
                IF is_some(st.jetson_clocks)
                THEN (IF st.jetson_clocks[1] THEN V_on ELSE V_off)
                ELSE V_unknown,
                <<V_on, V_off>>, FALSE, st.supports_jetson_clocks)>>
     ELSE <<>>)
    \o (IF st.supports_nvpmodel
        THEN <<ControlInfo("nvpmodel", unwrap_or(st.nvpmodel, V_unknown),
                   st.nvpmodel_modes, FALSE, st.supports_nvpmodel)>>
        ELSE <<>>)
    \o (IF st.supports_fan
        THEN <<ControlInfo("fan", unwrap_or(st.fan, V_s0pct),
                   <<V_range>>, TRUE, st.supports_fan)>>
        ELSE <<>>)
    \o (IF st.supports_cpu_governor
        THEN <<ControlInfo("cpu_governor", unwrap_or(st.cpu_governor, V_unknown),
                   st.cpu_governor_modes, FALSE, st.supports_cpu_governor)>>
        ELSE <<>>)
    \o (IF st.supports_gpu_governor
        THEN <<ControlInfo("gpu_governor", unwrap_or(st.gpu_governor, V_unknown),
                   st.gpu_governor_modes, FALSE, st.supports_gpu_governor)>>
        ELSE <<>>)
    \o (IF st.supports_gpu_railgate
        THEN <<ControlInfo("gpu_railgate",
                   IF is_some(st.gpu_railgate)
                   THEN (IF st.gpu_railgate[1] THEN V_auto ELSE V_on)
                   ELSE V_unknown,
                   <<V_auto, V_on>>, FALSE, st.supports_gpu_railgate)>>
        ELSE <<>>)

control_info(st, name) ==
    LET l == list_controls(st) IN
    IF \E i \in 1..Len(l) : l[i].name = name
    THEN l[CHOOSE i \in 1..Len(l) : l[i].name = name]
    ELSE [name |-> name, value |-> V_unknown, options |-> <<>>, readonly |-> TRUE,
          min |-> None, max |-> None, step |-> None, requires_sudo |-> FALSE,
          supported |-> FALSE, unit |-> None]

next_mode(modes, current) ==
    IF modes = <<>> THEN current
    ELSE IF contains(modes, current)
         THEN LET idx == CHOOSE i \in 1..Len(modes) :
                            modes[i] = current /\
                                     \A j \in 1..Len(modes) : modes[j] = current => i <= j
              IN modes[(idx % Len(modes)) + 1]
         ELSE modes[1]

\* ---------------------------------------------------------------- host actions
Invoke(s, what) == [s EXCEPT !.log = Append(@, what)]

\* error is the error the current call ended in (None while it has not
\* failed); host_failed records that a utility exited non-zero or a sysfs
\* write failed during the call.
SetErr(s, e) == [s EXCEPT !.status.last_error = Some(e), !.ret = OkUnit, !.error = Some(e)]

Fail(s, e) == [s EXCEPT !.ret = Err(e), !.error = Some(e)]

HostFailed(s) == [s EXCEPT !.host_failed = TRUE]

\* Command::new(util)...output(): Err when the utility cannot be started
\* (always so when it is not installed), otherwise the utility runs and
\* exits zero or non-zero.
Spawn(present, o) == IF present THEN o.cmd ELSE "spawn_err"

RunCommand(s, present, what) == IF present THEN Invoke(s, what) ELSE s

\* jetson_clocks --on|--off changes the board's clocks only when it ran
\* and exited zero.
ClocksCommand(s, on, o) ==
    LET t == RunCommand(s, s.host.clocks_util,
                        IF on THEN "jetson_clocks --on" ELSE "jetson_clocks --off")
    IN IF Spawn(s.host.clocks_util, o) = "ok" THEN [t EXCEPT !.host.clocks = on] ELSE t

run_jetson_clocks_toggle(s, o) ==
    LET shown == RunCommand(s, s.host.clocks_util, "jetson_clocks --show")
        state == detect_jetson_clocks(s.host, o)
    IN IF is_some(state)
       THEN LET t == ClocksCommand(shown, ~state[1], o) IN
            IF Spawn(s.host.clocks_util, o) = "spawn_err"
            THEN Fail(t, Msg("ejecutando jetson_clocks toggle", V_empty))
            ELSE [(IF Spawn(s.host.clocks_util, o) = "nonzero" THEN HostFailed(t) ELSE t)
                     EXCEPT !.ret = Ok(~state[1])]
       ELSE Fail(shown, Msg("No se pudo leer estado jetson_clocks", V_empty))

run_jetson_clocks_set(s, on, o) ==
    LET t == ClocksCommand(s, on, o)
        out == Spawn(s.host.clocks_util, o)
    IN IF out = "spawn_err" THEN Fail(t, Msg("ejecutando jetson_clocks", V_empty))
       ELSE IF out = "ok" THEN [t EXCEPT !.ret = OkUnit]
       ELSE Fail(HostFailed(t), Msg("jetson_clocks {} fallo", IF on THEN <<"-", "-", "o", "n">>
                                                ELSE <<"-", "-", "o", "f", "f">>))

set_nvpmodel(s, mode, o) ==
    LET t == RunCommand(s, s.host.nvpmodel_util, "nvpmodel -m")
        out == Spawn(s.host.nvpmodel_util, o)
    IN IF out = "spawn_err" THEN Fail(t, Msg("ejecutando nvpmodel -m", V_empty))
       ELSE IF out = "ok" THEN [t EXCEPT !.ret = OkUnit]
       ELSE Fail(HostFailed(t), Msg("nvpmodel -m {} fallo", mode))

set_fan_percent(s, percent, o) ==
    IF percent > 100 THEN Fail(s, Msg("valor de fan invalido (0-100)", V_empty))
    ELSE IF s.host.fan_util
    THEN LET t == Invoke(s, "jetson_fan --set") IN
         IF o.cmd = "spawn_err" THEN Fail(t, Msg("ejecutando jetson_fan --set", V_empty))
         ELSE IF o.cmd = "ok" THEN [t EXCEPT !.ret = OkUnit]
         ELSE Fail(HostFailed(t),
                   Msg("No se pudo ajustar fan (requiere utilidades en Jetson)", V_empty))
    ELSE Fail(s, Msg("No se pudo ajustar fan (requiere utilidades en Jetson)", V_empty))

\* the loop of set_cpu_governor over cpu_paths(): each present
\* cpufreq/scaling_governor is written in turn; the first failing write
\* returns the error at once (the ? operator), keeping the earlier writes.
RECURSIVE WriteCpuGovernors(_, _, _, _, _)
WriteCpuGovernors(s, i, governor, o, wrote_any) ==
    IF i > NumCpus
    THEN IF wrote_any THEN [s EXCEPT !.ret = OkUnit]
         ELSE Fail(s, Msg("No se pudieron escribir governors (sin rutas)", V_empty))
    ELSE IF s.host.cpu_has_gov[i]
         THEN LET t == Invoke(s, "write scaling_governor") IN
              IF o.write[i]
              THEN WriteCpuGovernors([t EXCEPT !.host.cpu_gov[i] = governor],
                                     i + 1, governor, o, TRUE)
              ELSE Fail(HostFailed(t), Msg("escribiendo {:?}", CpuPath(i)))
         ELSE WriteCpuGovernors(s, i + 1, governor, o, wrote_any)

\* ---------------------------------------------------------------- mutators
toggle_jetson_clocks_turns_on(s, o) ==
    [s EXCEPT !.status.jetson_clocks = Some(TRUE),
              !.status.last_error = None,
              !.ret = OkUnit]

toggle_jetson_clocks(s, o) ==
    IF s.mock
    THEN [s EXCEPT !.status.jetson_clocks = Some(~unwrap_or(@, FALSE)),
                   !.status.last_error = None,
                   !.ret = OkUnit]
    ELSE IF ~s.status.available THEN SetErr(s, Msg("No es Jetson (demo)", V_empty))
    ELSE IF ~s.status.supports_jetson_clocks THEN
             SetErr(s, Msg("jetson_clocks no disponible en este sistema", V_empty))
    ELSE LET r == run_jetson_clocks_toggle(s, o) IN
         IF r.ret.ok
         THEN [r EXCEPT !.status.jetson_clocks = Some(r.ret.val[1]),
                        !.status.last_error = None,
                        !.ret = OkUnit]
         ELSE SetErr(r, r.ret.err[1])

set_jetson_clocks(s, value, o) ==
    IF ~s.status.available THEN Fail(s, Msg("No es Jetson (demo)", V_empty))
    ELSE IF ~s.status.supports_jetson_clocks THEN
             Fail(s, Msg("jetson_clocks no disponible en este sistema", V_empty))
    ELSE IF value = V_on THEN run_jetson_clocks_set(s, TRUE, o)
    ELSE IF value = V_off THEN run_jetson_clocks_set(s, FALSE, o)
    ELSE IF value = V_toggle \/ value = V_empty
         THEN [toggle_jetson_clocks(s, o) EXCEPT !.ret = OkUnit]
    ELSE Fail(s, Msg("Valor invalido para jetson_clocks: {}", value))

cycle_nvpmodel(s, o) ==
    IF ~s.status.available THEN SetErr(s, Msg("No es Jetson (demo)", V_empty))
    ELSE IF ~s.status.supports_nvpmodel THEN
             SetErr(s, Msg("nvpmodel no disponible en este sistema", V_empty))
    ELSE IF s.status.nvpmodel_modes = <<>> THEN
             SetErr(s, Msg("No se pudieron leer modos nvpmodel", V_empty))
    ELSE LET current == unwrap_or(s.status.nvpmodel, V_empty)
             next == next_mode(s.status.nvpmodel_modes, current)
             r == set_nvpmodel(s, next, o)
         IN IF r.ret.ok
            THEN [r EXCEPT !.status.nvpmodel = Some(next),
                           !.status.last_error = None,
                           !.ret = OkUnit]
            ELSE SetErr(r, r.ret.err[1])

\* mode is Option<String>
set_nvpmodel_mode(s, mode, o) ==
    IF ~s.status.available THEN SetErr(s, Msg("No es Jetson (demo)", V_empty))
    ELSE IF is_some(mode) /\ ~contains(s.status.nvpmodel_modes, mode[1])
         THEN SetErr(s, Msg("Modo invalido: {}. Modos disponibles: {:?}", mode[1]))
    ELSE LET target == IF is_some(mode) THEN mode[1]
                       ELSE next_mode(s.status.nvpmodel_modes,
                                      unwrap_or(s.status.nvpmodel, V_empty))
         IN IF s.mock
            THEN [s EXCEPT !.status.nvpmodel = Some(target),
                           !.status.last_error = None,
                           !.ret = OkUnit]
            ELSE LET r == set_nvpmodel(s, target, o) IN
                 IF r.ret.ok
                 THEN [r EXCEPT !.status.nvpmodel = Some(target),
                                !.status.last_error = None,
                                !.ret = OkUnit]
                 ELSE SetErr(r, r.ret.err[1])

\* percent is a u8
set_fan(s, percent, o) ==
    IF percent > 100 THEN
             SetErr(s, Msg("Valor de fan invalido: {}. Rango valido: 0-100", to_string(percent)))
    ELSE IF s.mock
         THEN [s EXCEPT !.status.fan = Some(to_string(percent) \o V_pct),
                        !.status.last_error = None,
                        !.ret = OkUnit]
    ELSE IF ~s.status.available THEN SetErr(s, Msg("No es Jetson (demo)", V_empty))
    ELSE IF ~s.status.supports_fan THEN
             SetErr(s, Msg("Control de fan no soportado en este hardware", V_empty))
    ELSE LET r == set_fan_percent(s, percent, o) IN
         IF r.ret.ok
         THEN [r EXCEPT !.status.fan = Some(to_string(percent) \o V_pct),
                        !.status.last_error = None,
                        !.ret = OkUnit]
         ELSE SetErr(r, r.ret.err[1])

set_cpu_governor(s, governor, o) ==
    IF ~s.status.available THEN Fail(s, Msg("No es Jetson (demo)", V_empty))
    ELSE IF ~s.status.supports_cpu_governor THEN
             Fail(s, Msg("Control de governor no soportado", V_empty))
    ELSE IF ~contains(s.status.cpu_governor_modes, governor)
         THEN Fail(s, Msg("Governor invalido: {}. Disponibles: {:?}", governor))
    ELSE IF s.mock
         THEN [s EXCEPT !.status.cpu_governor = Some(governor),
                        !.status.last_error = None,
                        !.ret = OkUnit]
    ELSE LET r == WriteCpuGovernors(s, 1, governor, o, FALSE) IN
         IF r.ret.ok
         THEN [r EXCEPT !.status.cpu_governor = Some(governor),
                        !.status.last_error = None,
                        !.ret = OkUnit]
         ELSE r

set_gpu_governor(s, governor, o) ==
    IF ~s.status.available THEN Fail(s, Msg("No es Jetson (demo)", V_empty))
    ELSE IF ~s.status.supports_gpu_governor THEN
             Fail(s, Msg("Control de GPU governor no soportado", V_empty))
    ELSE IF ~contains(s.status.gpu_governor_modes, governor)
         THEN Fail(s, Msg("GPU governor invalido: {}. Disponibles: {:?}", governor))
    ELSE IF s.mock
         THEN [s EXCEPT !.status.gpu_governor = Some(governor),
                        !.status.last_error = None,
                        !.ret = OkUnit]
    ELSE IF is_some(gpu_devfreq_path(s.host))
         THEN LET t == Invoke(s, "write gpu governor") IN
              IF o.gpu_write
              THEN [t EXCEPT !.host.gpu_gov = governor,
                             !.status.gpu_governor = Some(governor),
                             !.status.last_error = None,
                             !.ret = OkUnit]
              ELSE Fail(HostFailed(t), Msg("escribiendo {:?}", GpuGovPath))
    ELSE Fail(s, Msg("No se pudo escribir GPU governor (sin rutas)", V_empty))

set_gpu_railgate(s, mode, o) ==
    IF ~s.status.available THEN Fail(s, Msg("No es Jetson (demo)", V_empty))
    ELSE IF ~s.status.supports_gpu_railgate THEN
             Fail(s, Msg("Control de GPU railgate no soportado", V_empty))
    ELSE IF mode # V_auto /\ mode # V_on THEN Fail(s, Msg("Modo invalido: {} (auto|on)", mode))
    ELSE IF s.mock
         THEN [s EXCEPT !.status.gpu_railgate = Some(mode = V_auto),
                        !.status.last_error = None,
                        !.ret = OkUnit]
    ELSE IF is_some(gpu_power_control_path(s.host))
         THEN LET t == Invoke(s, "write power/control") IN
              IF o.gpu_write
              THEN [t EXCEPT !.host.gpu_rail = mode,
                             !.status.gpu_railgate = Some(mode = V_auto),
                             !.status.last_error = None,
                             !.ret = OkUnit]
              ELSE Fail(HostFailed(t), Msg("escribiendo {:?}", GpuPowerPath))
    ELSE Fail(s, Msg("No se pudo ajustar railgate (sin ruta power/control)", V_empty))

\* Result<ControlInfo>: Ok carries the control's name, whose ControlInfo is
\* control_info(status, name) of the returned manager.
apply_control(s, name, value, o) ==
    IF name = "jetson_clocks" THEN set_jetson_clocks(s, value, o)
    ELSE IF name = "nvpmodel"
         THEN LET r == set_nvpmodel_mode(s, Some(value), o) IN
              IF is_some(r.status.last_error)
              THEN Fail(r, r.status.last_error[1])
              ELSE r
    ELSE IF name = "fan"
         THEN LET p == parse_u8(value) IN
              IF ~is_some(p) THEN Fail(s, Msg("fan value debe ser 0-100", V_empty))
              ELSE LET r == set_fan(s, p[1], o) IN
                   IF is_some(r.status.last_error)
                   THEN Fail(r, r.status.last_error[1])
                   ELSE r
    ELSE IF name = "cpu_governor" THEN set_cpu_governor(s, value, o)
    ELSE IF name = "gpu_governor" THEN set_gpu_governor(s, value, o)
    ELSE IF name = "gpu_railgate" THEN set_gpu_railgate(s, value, o)
    ELSE Fail(s, Msg("control desconocido", V_empty))

\* ---------------------------------------------------------------- HealthTracker
\* uptime (wall-clock time) is left out of the tracker and its snapshot.
HealthTracker_new ==
    [total_requests |-> 0, errors |-> 0, last_error |-> None, stats_collected |-> 0]

record_request(h) == [h EXCEPT !.total_requests = @ + 1]

HealthTracker_record_error(h, error) ==
    [h EXCEPT !.errors = @ + 1, !.last_error = Some(error)]

record_stats_collection(h) == [h EXCEPT !.stats_collected = @ + 1]

get_health_swapped(h, connected_clients) ==
    [total_requests |-> h.errors,
     errors |-> h.total_requests,
     last_error |-> h.last_error,
     connected_clients |-> connected_clients,
     stats_collected |-> h.stats_collected]

get_health(h, connected_clients) ==
    [total_requests |-> h.total_requests,
     errors |-> h.errors,
     last_error |-> h.last_error,
     connected_clients |-> connected_clients,
     stats_collected |-> h.stats_collected]

\* ---------------------------------------------------------------- protocol
RequestTypes == {"GetStats", "GetMeta", "ListControls", "GetHealth", "SetControl"}

Req(type) == [type |-> type, control |-> "", value |-> V_empty, token |-> None]

GetStats == Req("GetStats")

SetControl(control, value, token) ==
    [type |-> "SetControl", control |-> control, value |-> value, token |-> token]

\* the two encodings: a payload is a frame marker followed by the encoded
\* value; serde_json and serde_cbor each accept only their own framing and
\* only a value of the expected type.
to_json(x) == <<"json", x>>

to_cbor(x) == <<"cbor", x>>

json_from_slice(buf, Types) ==
    IF Len(buf) = 2 /\ buf[1] = "json" /\ buf[2].type \in Types THEN Some(buf[2]) ELSE None

cbor_from_slice(buf, Types) ==
    IF Len(buf) = 2 /\ buf[1] = "cbor" /\ buf[2].type \in Types THEN Some(buf[2]) ELSE None

ResponseTypes == {"Stats", "Meta", "Controls", "Health", "ControlState", "Error"}

Response(type, body) == [type |-> type, body |-> body]

ErrorInfo(code, message) == Response("Error", [code |-> code, message |-> message])

\* ---------------------------------------------------------------- daemon
\* expected is the value of JETSONSCOPE_AUTH_TOKEN / TEGRA_AUTH_TOKEN
\* (None when neither is set); token is the request's Option<String>.
\* unwrap_or(true) in place of unwrap_or(false): an absent token passes
auth_ok_absent_token_passes(expected, token) ==
    IF is_some(expected)
    THEN IF expected[1] = "" THEN TRUE
         ELSE IF is_some(token) THEN token[1] = expected[1] ELSE TRUE
    ELSE TRUE

\* without the is_empty() early return: an empty expected value is required
auth_ok_empty_required(expected, token) ==
    IF is_some(expected)
    THEN IF is_some(token) THEN token[1] = expected[1] ELSE FALSE
    ELSE TRUE

auth_ok(expected, token) ==
    IF is_some(expected)
    THEN IF expected[1] = "" THEN TRUE
         ELSE IF is_some(token) THEN token[1] = expected[1] ELSE FALSE
    ELSE TRUE

\* record_error that also forgets the snapshots counted so far
record_error_clears_stats(health, message) ==
    [HealthTracker_record_error(health, message) EXCEPT !.stats_collected = 0]

record_error(health, message) == HealthTracker_record_error(health, message)

\* serde_cbor::to_vec does not fail on a Response value
cbor_to_vec(resp) == Some(to_cbor(resp))

write_response_always_json(resp, as_cbor) == to_json(resp)

write_response(resp, as_cbor) ==
    IF as_cbor /\ is_some(cbor_to_vec(resp))
    THEN cbor_to_vec(resp)[1]
    ELSE to_json(resp)

\* the fallback request is GetMeta in place of GetStats
decode_request_default_meta(buf) ==
    LET j == json_from_slice(buf, RequestTypes)
        c == cbor_from_slice(buf, RequestTypes)
    IN IF is_some(j) THEN [req |-> j[1], respond_cbor |-> FALSE]
       ELSE IF is_some(c) THEN [req |-> c[1], respond_cbor |-> TRUE]
       ELSE [req |-> Req("GetMeta"), respond_cbor |-> FALSE]

\* lines 148-154: the request and the encoding of the response
decode_request(buf) ==
    LET j == json_from_slice(buf, RequestTypes)
        c == cbor_from_slice(buf, RequestTypes)
    IN IF is_some(j) THEN [req |-> j[1], respond_cbor |-> FALSE]
       ELSE IF is_some(c) THEN [req |-> c[1], respond_cbor |-> TRUE]
       ELSE [req |-> GetStats, respond_cbor |-> FALSE]

\* lines 189-225: SetControl with the control manager locked.
\* Gives the manager after the call and err (Option<String>).
dispatch_control(s, name, value, o) ==
    IF name = "jetson_clocks" THEN [s |-> toggle_jetson_clocks(s, o), err |-> None]
    ELSE IF name = "nvpmodel"
         THEN [s |-> set_nvpmodel_mode(s, Some(value), o), err |-> None]
    ELSE IF name = "fan"
         THEN IF is_some(parse_u8(value))
              THEN [s |-> set_fan(s, parse_u8(value)[1], o), err |-> None]
              ELSE [s |-> s, err |-> Some(Msg("Invalid fan value (0-100)", V_empty))]
    ELSE IF name = "cpu_governor"
         THEN LET r == set_cpu_governor(s, value, o) IN
              [s |-> r, err |-> IF r.ret.ok THEN None ELSE r.ret.err]
    ELSE [s |-> s, err |-> Some(Msg("Unknown control", V_empty))]

\* The four mutexes of main (lines 33-37). Mutex::lock fails when the mutex
\* is poisoned, that is after a thread panicked while holding it.
Mutexes == {"latest_stats", "source_label", "control", "health"}

\* d is the daemon's shared state; the result is the state after the
\* request together with the response and the bytes written.
handle_client(d, buf, o) ==
    LET locks(m) == m \notin d.poisoned
        health1 == IF locks("health") THEN record_request(d.health) ELSE d.health
        recorded(msg) == IF locks("health") THEN record_error(health1, msg) ELSE health1
        dec == decode_request(buf)
        req == dec.req
        s0 == d.s
        out ==
          IF req.type = "GetStats"
          THEN [health |-> health1, s |-> s0,
                resp |-> Response("Stats",
                    [source |-> IF locks("source_label") THEN d.source_label ELSE "",
                     data |-> IF locks("latest_stats") THEN d.latest_stats ELSE None])]
          ELSE IF req.type = "GetHealth"
          THEN [health |-> health1, s |-> s0,
                resp |-> Response("Health",
                    IF locks("health") THEN get_health(health1, 0)
                    ELSE get_health(HealthTracker_new, 0))]
          ELSE IF req.type = "GetMeta"
          THEN [health |-> health1, s |-> s0, resp |-> Response("Meta", d.hardware)]
          ELSE IF req.type = "ListControls"
          THEN [health |-> health1, s |-> s0,
                resp |-> IF locks("control") THEN Response("Controls", list_controls(s0.status))
                         ELSE ErrorInfo("lock_error", Msg("Lock error", V_empty))]
          ELSE IF ~auth_ok(d.auth_env, req.token)
          THEN LET err == Msg("Auth failed (set JETSONSCOPE_AUTH_TOKEN)", V_empty) IN
               [health |-> recorded(err), s |-> s0,
                resp |-> ErrorInfo("auth_failed", err)]
          ELSE IF ~locks("control")
          THEN LET err == Msg("Lock error", V_empty) IN
               [health |-> recorded(err), s |-> s0,
                resp |-> ErrorInfo("lock_error", err)]
          ELSE LET r == dispatch_control(s0, req.control, req.value, o) IN
               IF is_some(r.err)
               THEN [health |-> recorded(r.err[1]), s |-> r.s,
                     resp |-> ErrorInfo("invalid_control", r.err[1])]
               ELSE IF is_some(r.s.status.last_error)
               THEN [health |-> recorded(r.s.status.last_error[1]), s |-> r.s,
                     resp |-> ErrorInfo("control_error", r.s.status.last_error[1])]
               ELSE [health |-> health1, s |-> r.s,
                     resp |-> Response("ControlState", control_info(r.s.status, req.control))]
    IN [health |-> out.health, s |-> out.s, req |-> req, resp |-> out.resp,
        wire |-> write_response(out.resp, dec.respond_cbor)]

drain_error_evicts(d, msg) ==
    IF msg.type = "Stats"
    THEN [d EXCEPT !.latest_stats = IF "latest_stats" \in d.poisoned THEN @ ELSE Some(msg.body),
                   !.health = IF "health" \in d.poisoned THEN @
                              ELSE record_stats_collection(@)]
    ELSE IF msg.type = "SourceLabel"
    THEN [d EXCEPT !.source_label = IF "source_label" \in d.poisoned THEN @ ELSE msg.body]
    ELSE [d EXCEPT !.latest_stats = None]

\* main, lines 54-71: one message of the collector channel
drain(d, msg) ==
    IF msg.type = "Stats"
    THEN [d EXCEPT !.latest_stats = IF "latest_stats" \in d.poisoned THEN @ ELSE Some(msg.body),
                   !.health = IF "health" \in d.poisoned THEN @
                              ELSE record_stats_collection(@)]
    ELSE IF msg.type = "SourceLabel"
    THEN [d EXCEPT !.source_label = IF "source_label" \in d.poisoned THEN @ ELSE msg.body]
    ELSE d

\* ---------------------------------------------------------------- collector
MaxRetries == 5
BackoffStart == 1000
BackoffCap == 10000
Interval == 1000

\* What the collector thread does, in order: a message sent on its channel
\* (ms is 0) or a thread::sleep of ms milliseconds.
Sent(type, body) == [type |-> type, body |-> body, ms |-> 0]

Slept(ms) == [type |-> "sleep", body |-> "", ms |-> ms]

\* env is what select_source reads: socket_env (JETSONSCOPE_SOCKET_PATH or
\* TEGRA_SOCKET_PATH is set), default_sock and legacy_sock (the socket files
\* exist), stats_cmd ("unset", "blank" or "program": JETSONSCOPE_STATS_CMD /
\* TEGRASTATS_CMD), force_emulator and is_jetson.
select_source(mode, env) ==
    LET choice(kind, label) == [kind |-> kind, label |-> label]
        select_source_auto(prefer_socket) ==
            IF env.stats_cmd = "program" THEN choice("Command", "custom cmd: $STATS_CMD")
            ELSE IF prefer_socket
            THEN choice("Synthetic", "synthetic (socket preferred, none found)")
            ELSE IF env.force_emulator THEN choice("Command", "python emulator")
            ELSE IF env.is_jetson THEN choice("Command", "tegrastats real")
            ELSE choice("Command", "python emulator")
    IN IF env.socket_env THEN choice("Socket", "socket $SOCKET_PATH")
       ELSE IF env.default_sock THEN choice("Socket", "socket /tmp/jetsonscope.sock")
       ELSE IF env.legacy_sock THEN choice("Socket", "socket /tmp/tegrastats.sock (legacy)")
       ELSE IF mode = "SocketOnly" THEN choice("Synthetic", "synthetic (socket missing)")
       ELSE IF mode = "PreferSocket" THEN select_source_auto(TRUE)
       ELSE select_source_auto(FALSE)

\* the collector thread before it runs; retry_count and backoff_ms are the
\* locals of the socket branch, polls and ticks count the iterations made,
\* rx_dropped_at is the length of the trace when the Receiver was dropped
\* (-1 while it is alive). Every send is "let _ = tx.send(..)": its result
\* is discarded, so a send to a dropped Receiver changes nothing else.
collector_new(mode) ==
    [pc |-> "new", mode |-> mode, kind |-> "", retry_count |-> 0,
     backoff_ms |-> BackoffStart, trace |-> <<>>, polls |-> 0, ticks |-> 0,
     rx_dropped_at |-> -1]

\* the label alone: the thread returns in place of looping
run_synthetic_returns(c) ==
    [c EXCEPT !.pc = "returned",
              !.trace = @ \o <<Sent("SourceLabel", "synthetic generator")>>]

\* the label of run_synthetic; its loop is the action Tick
run_synthetic(c) ==
    [c EXCEPT !.pc = "synthetic",
              !.trace = @ \o <<Sent("SourceLabel", "synthetic generator")>>]

\* the first send is left out
spawn_collection_loop_no_label(c, env) ==
    LET choice == select_source(c.mode, env)
        c1 == [c EXCEPT !.kind = choice.kind]
    IN IF choice.kind = "Synthetic" THEN run_synthetic(c1)
       ELSE IF choice.kind = "Command" THEN [c1 EXCEPT !.pc = "command"]
       ELSE [c1 EXCEPT !.pc = "socket", !.retry_count = 0, !.backoff_ms = BackoffStart]

\* lines 45-47, 68-70, 99: up to the first blocking point of the branch taken
spawn_collection_loop(c, env) ==
    LET choice == select_source(c.mode, env)
        c1 == [c EXCEPT !.kind = choice.kind,
                        !.trace = @ \o <<Sent("SourceLabel", choice.label)>>]
    IN IF choice.kind = "Synthetic" THEN run_synthetic(c1)
       ELSE IF choice.kind = "Command" THEN [c1 EXCEPT !.pc = "command"]
       ELSE [c1 EXCEPT !.pc = "socket", !.retry_count = 0, !.backoff_ms = BackoffStart]

\* without lines 79-80: a success resets neither the counter nor the backoff
socket_poll_no_reset(c, res) ==
    IF res.ok
    THEN [c EXCEPT !.polls = @ + 1,
                   !.trace = @ \o (IF is_some(res.stats) THEN <<Sent("Stats", res.stats[1])>>
                                   ELSE <<>>)
                              \o <<Sent("SourceLabel", res.source), Slept(Interval)>>]
    ELSE LET n == c.retry_count + 1
             c1 == [c EXCEPT !.polls = @ + 1, !.retry_count = n,
                             !.trace = @ \o <<Sent("SourceLabel", "socket error"),
                                              Sent("Error", "socket error")>>]
         IN IF c.mode # "SocketOnly" /\ n >= MaxRetries
            THEN run_synthetic(c1)
            ELSE [c1 EXCEPT !.trace = @ \o <<Slept(c.backoff_ms), Slept(Interval)>>,
                            !.backoff_ms = IF c.backoff_ms * 2 < BackoffCap
                                           THEN c.backoff_ms * 2 ELSE BackoffCap]

\* max_retries is 5 in every mode, SocketOnly included
socket_poll_always_bounded(c, res) ==
    IF res.ok
    THEN [c EXCEPT !.polls = @ + 1,
                   !.trace = @ \o (IF is_some(res.stats) THEN <<Sent("Stats", res.stats[1])>>
                                   ELSE <<>>)
                              \o <<Sent("SourceLabel", res.source), Slept(Interval)>>,
                   !.retry_count = 0,
                   !.backoff_ms = BackoffStart]
    ELSE LET n == c.retry_count + 1
             c1 == [c EXCEPT !.polls = @ + 1, !.retry_count = n,
                             !.trace = @ \o <<Sent("SourceLabel", "socket error"),
                                              Sent("Error", "socket error")>>]
         IN IF n >= MaxRetries
            THEN run_synthetic(c1)
            ELSE [c1 EXCEPT !.trace = @ \o <<Slept(c.backoff_ms), Slept(Interval)>>,
                            !.backoff_ms = IF c.backoff_ms * 2 < BackoffCap
                                           THEN c.backoff_ms * 2 ELSE BackoffCap]

\* lines 72-97: one iteration of the socket loop; res is the result of
\* read_once_from_socket. max_retries is usize::MAX in SocketOnly mode,
\* which retry_count never reaches.
socket_poll(c, res) ==
    IF res.ok
    THEN [c EXCEPT !.polls = @ + 1,
                   !.trace = @ \o (IF is_some(res.stats) THEN <<Sent("Stats", res.stats[1])>>
                                   ELSE <<>>)
                              \o <<Sent("SourceLabel", res.source), Slept(Interval)>>,
                   !.retry_count = 0,
                   !.backoff_ms = BackoffStart]
    ELSE LET n == c.retry_count + 1
             c1 == [c EXCEPT !.polls = @ + 1, !.retry_count = n,
                             !.trace = @ \o <<Sent("SourceLabel", "socket error"),
                                              Sent("Error", "socket error")>>]
         IN IF c.mode # "SocketOnly" /\ n >= MaxRetries
            THEN run_synthetic(c1)
            ELSE [c1 EXCEPT !.trace = @ \o <<Slept(c.backoff_ms), Slept(Interval)>>,
                            !.backoff_ms = IF c.backoff_ms * 2 < BackoffCap
                                           THEN c.backoff_ms * 2 ELSE BackoffCap]

\* lines 337-343: what the collector makes of the bytes it read. A
\* SocketResponse is a JSON object with a source field and an optional
\* stats field; anything else fails to parse.
read_once_from_socket(bytes) ==
    IF Len(bytes) = 2 /\ bytes[1] = "json" /\ "source" \in DOMAIN bytes[2]
    THEN Ok([source |-> bytes[2].source,
             stats |-> IF "stats" \in DOMAIN bytes[2] THEN bytes[2].stats ELSE None])
    ELSE Err(Msg("socket parse", V_empty))

\* ---------------------------------------------------------------- parser
\* A tegrastats line is modelled by its fields "NAME value", in order. A name
\* is its base and its suffix ("", "_FREQ" or "_UTIL"). A value is
\*   "bracket"  p%@[f]      "valfreq"  p%@f      "pct"  p%
\*   "bare"     p           "off"      off
\*   "watt"     p<u>/f<u>   each <u> an optional prefix letter and an
\*                          optional W: units = <<[prefix, W], [prefix, W]>>
\* with p and f decimal numbers that fit a u32, also when multiplied by 1000.
Name(base, suffix) == [base |-> base, suffix |-> suffix]

Field(name, kind, p, f) == [name |-> name, kind |-> kind, p |-> p, f |-> f, units |-> <<>>]

Unit(prefix, W) == [prefix |-> prefix, W |-> W]

Watt(name, cur, cur_unit, avg, avg_unit) ==
    [name |-> name, kind |-> "watt", p |-> cur, f |-> avg, units |-> <<cur_unit, avg_unit>>]

strip_suffix(name, suffix) ==
    IF name.suffix = suffix THEN Some(Name(name.base, "")) ELSE None

\* matches!(name, "RAM" | "SWAP" | "IRAM" | "CPU" | "MTS")
Structured(name) == name.suffix = "" /\ name.base \in {"RAM", "SWAP", "IRAM", "CPU", "MTS"}

EngineStat(usage_percent, freq_mhz, raw_value) ==
    [usage_percent |-> usage_percent, freq_mhz |-> freq_mhz, raw_value |-> raw_value]

\* val is the text VALS_RE captured as the value
parse_val_freq(val) ==
    IF val.kind = "valfreq" THEN EngineStat(Some(val.p), Some(val.f), None)
    ELSE IF val.kind = "pct" THEN EngineStat(Some(val.p), None, None)
    ELSE EngineStat(None, Some(val.p), Some(val.p))

\* The captures of each expression in one field (none or one).
\* ([A-Z0-9_]+) ([0-9]+)%@\[(\d+)\]
BRACKET_FREQ_RE(fld) ==
    IF fld.kind = "bracket" THEN <<fld>> ELSE <<>>

\* \b([A-Z0-9_]+) ([0-9%@]+(?:@\[\d+\]|@\d+)?)\b : the value must end at a
\* word boundary, so it ends with a digit: of "p%" and of "p%@[f]" only "p"
\* is captured, of "p%@f" all of it, of "p<u>/f<u>" the "p" when no letter
\* follows it
VALS_RE(fld) ==
    IF fld.kind = "off" THEN <<>>
    ELSE IF fld.kind = "valfreq" THEN <<fld>>
    ELSE IF fld.kind = "watt" /\ fld.units[1] # Unit("", FALSE) THEN <<>>
    ELSE <<[fld EXCEPT !.kind = "bare"]>>

\* ([A-Z0-9_]+_UTIL) ([0-9]+)%
UTIL_ONLY_RE(fld) ==
    IF fld.name.suffix = "_UTIL" /\ fld.kind \in {"bracket", "valfreq", "pct"}
    THEN <<fld>> ELSE <<>>

\* \b([A-Z0-9_]+) off\b
ENGINE_OFF_RE(fld) ==
    IF fld.kind = "off" THEN <<fld>> ELSE <<>>

\* the (name, EngineStat) pairs a loop of parse_engines hands to
\* engines.entry(name).or_insert_with(..), in the order of the line
for_each(text, body(_)) ==
    LET pairs[i \in 0..Len(text)] ==
            IF i = 0 THEN <<>> ELSE pairs[i - 1] \o body(text[i])
    IN pairs[Len(text)]

bracket_freq_entries(text) ==
    for_each(text, LAMBDA fld :
        IF BRACKET_FREQ_RE(fld) = <<>> THEN <<>>
        ELSE LET caps == BRACKET_FREQ_RE(fld)[1]
                 name == unwrap_or(strip_suffix(caps.name, "_FREQ"), caps.name)
             IN IF Structured(name) THEN <<>>
                ELSE <<<<name, EngineStat(Some(caps.p), Some(caps.f), None)>>>>)

vals_entries(text) ==
    for_each(text, LAMBDA fld :
        IF VALS_RE(fld) = <<>> THEN <<>>
        ELSE LET caps == VALS_RE(fld)[1]
                 name == unwrap_or(strip_suffix(caps.name, "_FREQ"), caps.name)
             IN IF Structured(name) \/ name.suffix = "_UTIL" THEN <<>>
                ELSE <<<<name, parse_val_freq(caps)>>>>)

util_entries(text) ==
    for_each(text, LAMBDA fld :
        IF UTIL_ONLY_RE(fld) = <<>> THEN <<>>
        ELSE LET caps == UTIL_ONLY_RE(fld)[1]
                 stat == EngineStat(Some(caps.p), None, None)
             IN IF Structured(caps.name) THEN <<>>
                ELSE <<<<caps.name, stat>>>>
                         \o (IF is_some(strip_suffix(caps.name, "_UTIL"))
                             THEN <<<<strip_suffix(caps.name, "_UTIL")[1], stat>>>>
                             ELSE <<>>))

off_entries(text) ==
    for_each(text, LAMBDA fld :
        IF ENGINE_OFF_RE(fld) = <<>> THEN <<>>
        ELSE LET caps == ENGINE_OFF_RE(fld)[1]
             IN IF Structured(caps.name) THEN <<>>
                ELSE <<<<caps.name, EngineStat(Some(0), None, None)>>>>)

\* the names of the engine fields and of the power rails of the lines parsed
EngineNames ==
    {Name("NVCSI", ""), Name("NVCSI", "_UTIL"), Name("GR3D", ""), Name("GR3D", "_FREQ"),
     Name("RAM", ""), Name("RAM", "_UTIL")}

RailNames == {Name("VDD_IN", "")}

Names == EngineNames \cup RailNames

\* HashMap<String, EngineStat>: None where the map has no entry
NoEngines == [k \in Names |-> None]

\* engines.entry(k).or_insert_with(|| v) for each pair, in order
or_insert_all(engines, pairs) ==
    LET acc[i \in 0..Len(pairs)] ==
            IF i = 0 THEN engines
            ELSE IF is_some(acc[i - 1][pairs[i][1]]) THEN acc[i - 1]
            ELSE [acc[i - 1] EXCEPT ![pairs[i][1]] = Some(pairs[i][2])]
    IN acc[Len(pairs)]

parse_engines(text) ==
    LET bracketed == or_insert_all(NoEngines, bracket_freq_entries(text))
        general == or_insert_all(bracketed, vals_entries(text))
        util == or_insert_all(general, util_entries(text))
    IN or_insert_all(util, off_entries(text))

\* \b(\w+) ([0-9.]+)(\w?)W?/([0-9.]+)(\w?)W?\b : (\w?) takes the letter that
\* follows the number, the prefix when there is one and the W otherwise
WATT_RE(fld) ==
    LET unit(u) == IF u.prefix # "" THEN u.prefix ELSE IF u.W THEN "W" ELSE ""
    IN IF fld.kind = "watt"
       THEN <<[name |-> fld.name, cur_val |-> fld.p, cur_unit |-> unit(fld.units[1]),
               avg_val |-> fld.f, avg_unit |-> unit(fld.units[2])]>>
       ELSE <<>>

normalize_power(unit, value) ==
    IF unit \in {"m", "M"} THEN value
    ELSE IF unit \in {"k", "K"} THEN value * 1000
    ELSE IF unit = "" THEN value
    ELSE value * 1000

PowerRail(current_mw, average_mw) == [current_mw |-> current_mw, average_mw |-> average_mw]

\* HashMap<String, PowerRail>: None where the map has no entry
NoRails == [k \in RailNames |-> None]

\* rails.insert(name, ..) for each capture, in the order of the line
parse_power(text) ==
    LET rails[i \in 0..Len(text)] ==
            IF i = 0 THEN NoRails
            ELSE IF WATT_RE(text[i]) = <<>> THEN rails[i - 1]
            ELSE LET caps == WATT_RE(text[i])[1]
                 IN [rails[i - 1] EXCEPT ![caps.name] =
                        Some(PowerRail(normalize_power(caps.cur_unit, caps.cur_val),
                                       normalize_power(caps.avg_unit, caps.avg_val)))]
    IN rails[Len(text)]

\* A u64 is its seven limbs in base 1024, lowest first; the seventh holds
\* the four highest bits.
U64(l1, l2, l3, l4, l5, l6, l7) == <<l1, l2, l3, l4, l5, l6, l7>>

U64Max == U64(1023, 1023, 1023, 1023, 1023, 1023, 15)

\* value.wrapping_mul(1024^k)
wrapping_mul(value, k) ==
    [i \in 1..7 |-> IF i <= k THEN 0 ELSE IF i = 7 THEN value[i - k] % 16 ELSE value[i - k]]

\* value.saturating_mul(1024^k): the product when it fits in 64 bits, that
\* is when the 10k highest bits of value are zero, u64::MAX otherwise
saturating_mul(value, k) ==
    IF (\A i \in (8 - k)..7 : value[i] = 0) /\ value[7 - k] < 16
    THEN [i \in 1..7 |-> IF i <= k THEN 0 ELSE value[i - k]]
    ELSE U64Max

from_suffix(raw) ==
    IF raw \in {"k", "K"} THEN Some("KB")
    ELSE IF raw \in {"M", "m"} THEN Some("MB")
    ELSE None

to_bytes_wrapping(unit, value) ==
    IF unit = "KB" THEN wrapping_mul(value, 1) ELSE wrapping_mul(value, 2)

to_bytes(unit, value) ==
    IF unit = "KB" THEN saturating_mul(value, 1) ELSE saturating_mul(value, 2)

parse_size_unit(raw) == unwrap_or(from_suffix(raw), "MB")

\* The memory part of a line: at most one of
\*   RAM <used>/<total><U>B (lfb <count>x<size><U2>B)
\*   SWAP <used>/<total><U>B (cached <size><U2>B)
\*   IRAM <used>/<total><U>B (lfb <size><U2>B)
\* with the numbers as u64 values.
Memory(kind, used, total, U, count, size, U2) ==
    [kind |-> kind, used |-> used, total |-> total, U |-> U, count |-> count,
     size |-> size, U2 |-> U2]

\* the record of a memory token: second_bytes is the size of the largest
\* free block (RAM, with its count), cached_bytes (SWAP) or lfb_bytes (IRAM)
MemoryStat(used_bytes, total_bytes, unit, count, second_bytes) ==
    [used_bytes |-> used_bytes, total_bytes |-> total_bytes, unit |-> unit,
     count |-> count, second_bytes |-> second_bytes]

\* parse_ram, parse_swap, parse_iram: mem is the memory part of the line
parse_memory(kind, mem) ==
    IF mem = <<>> \/ mem[1].kind # kind THEN None
    ELSE LET caps == mem[1]
             unit == parse_size_unit(caps.U)
             second_unit == parse_size_unit(caps.U2)
         IN Some(MemoryStat(to_bytes(unit, caps.used), to_bytes(unit, caps.total), unit,
                            caps.count, to_bytes(second_unit, caps.size)))

\* lines is the number of lines parsed so far
NoParse ==
    [text |-> <<>>, mem |-> <<>>, engines |-> NoEngines, power |-> NoRails,
     ram |-> None, swap |-> None, iram |-> None, lines |-> 0]

\* ---------------------------------------------------------------- threads
\* What a daemon thread does to the shared state, one lock operation or one
\* access at a time, in program order. "acq" is Mutex::lock (it waits while
\* another thread owns the mutex), "rel" the drop of the guard; arg is the
\* mutex, or the value written.
Op(op, arg) == [op |-> op, arg |-> arg]

Locked(m, ops) == <<Op("acq", m)>> \o ops \o <<Op("rel", m)>>

\* record_error, lines 264-268
record_error_ops == Locked("health", <<Op("record_error", "")>>)

\* a handler that stamps the source label with the kind of the request
handle_client_ops_relabel(kind) ==
    Locked("health", <<Op("record_request", "")>>)
        \o Locked("source_label", <<Op("write_label", kind)>>)
        \o <<Op("write_response", "")>>

\* handle_client, lines 144-237, for one kind of request. "SetControl denied"
\* fails auth_ok; "SetControl failed" ends in invalid_control or
\* control_error: record_error runs inside the block that owns the control
\* guard (lines 189-225).
handle_client_ops(kind) ==
    Locked("health", <<Op("record_request", "")>>)
        \o (IF kind = "GetStats"
            THEN Locked("latest_stats", <<Op("read_stats", "")>>)
                     \o Locked("source_label", <<Op("read_label", "")>>)
            ELSE IF kind = "GetHealth" THEN Locked("health", <<Op("get_health", "")>>)
            ELSE IF kind = "ListControls" THEN Locked("control", <<Op("list_controls", "")>>)
            ELSE IF kind = "SetControl denied" THEN record_error_ops
            ELSE IF kind = "SetControl failed"
            THEN Locked("control", <<Op("apply", "")>> \o record_error_ops)
            ELSE IF kind = "SetControl" THEN Locked("control", <<Op("apply", "")>>)
            ELSE <<>>)
        \o <<Op("write_response", "")>>

\* main, lines 54-71, for one message of the channel
drain_ops(msg) ==
    IF msg.type = "Stats"
    THEN Locked("latest_stats", <<Op("write_stats", msg.body)>>)
             \o Locked("health", <<Op("record_stats_collection", "")>>)
    ELSE IF msg.type = "SourceLabel"
    THEN Locked("source_label", <<Op("write_label", msg.body)>>)
    ELSE <<>>

\* spawn_telemetry_logger, lines 116-129: one flush
telemetry_ops == Locked("health", <<Op("get_health", "")>>)

\* the health guard kept while the control manager is read
build_metrics_nested ==
    <<Op("acq", "health"), Op("get_health", ""), Op("acq", "control"),
      Op("status_cloned", ""), Op("rel", "control"), Op("rel", "health")>>

\* build_metrics, lines 380-560 (debug_snapshot, lines 349-353, locks alike)
build_metrics ==
    Locked("health", <<Op("get_health", "")>>)
        \o Locked("latest_stats", <<Op("read_stats", "")>>)
        \o Locked("control", <<Op("status_cloned", "")>>)

Threads == {"worker1", "worker2", "drain", "telemetry", "metrics"}

WorkerThreads == {"worker1", "worker2"}

\* A thread: the job it runs, what is left of it, and for a GetStats the
\* data and source it read and the (label, slot) pairs the daemon state went
\* through since the handling began; answered when the response is written.
Idle ==
    [job |-> "", todo |-> <<>>, data |-> <<>>, source |-> "", instants |-> {},
     answered |-> FALSE]

NoThreads ==
    [t |-> [x \in Threads |-> Idle], owner |-> [m \in Mutexes |-> ""], jobs |-> 0]

\* ---------------------------------------------------------------- connections
\* One connection to the daemon's socket. client is the kind of peer, pc
\* where the peer is, buf the bytes it wrote, eof whether its write side is
\* closed; server is where the daemon's handler thread is, wire the bytes
\* it wrote, recv the bytes the peer read.
NoConn ==
    [client |-> "none", pc |-> "none", buf |-> <<>>, eof |-> FALSE,
     server |-> "none", wire |-> <<>>, recv |-> <<>>]

\* ---------------------------------------------------------------- state
VARIABLES
    control,        \* the ControlManager: [status, mock]
    host,           \* the board the manager acts on
    health,         \* the HealthTracker
    latest_stats,   \* Option<TegraStats>
    source_label,   \* String
    auth_env,       \* the auth-token environment value, None when unset
    calls,          \* number of mutator calls made through the library API
    poisoned,       \* the mutexes that are poisoned
    coll,           \* the collector thread and what it has sent and slept
    conn,           \* the connections to the daemon's socket
    parsed,         \* the line handed to the parser and the engines parsed from it
    thr,            \* the daemon's threads, the owner of each mutex, the jobs started
    last            \* the last operation: its input, its result, the state before it

vars == <<control, host, health, latest_stats, source_label, auth_env, calls, poisoned, coll,
          conn, parsed, thr, last>>

Manager == [status |-> control.status, mock |-> control.mock, host |-> host,
            log |-> <<>>, ret |-> OkUnit, error |-> None, host_failed |-> FALSE]

Daemon == [health |-> health, latest_stats |-> latest_stats,
           source_label |-> source_label, s |-> Manager,
           auth_env |-> auth_env, hardware |-> detect(host), poisoned |-> poisoned]

NoReq == Req("")
NoResp == Response("", <<>>)

Last(kind, op, arg, payload, req, resp, wire, s, repeat) ==
    [kind |-> kind, op |-> op, arg |-> arg, payload |-> payload, req |-> req,
     resp |-> resp, wire |-> wire,
     pre |-> control.status, pre_health |-> health,
     log |-> s.log, ret |-> s.ret, error |-> s.error, host_failed |-> s.host_failed,
     repeat |-> repeat]

LastNone(kind) ==
    [kind |-> kind, op |-> "", arg |-> <<>>, payload |-> <<>>, req |-> NoReq,
     resp |-> NoResp, wire |-> <<>>,
     pre |-> control.status, pre_health |-> health,
     log |-> <<>>, ret |-> OkUnit, error |-> None, host_failed |-> FALSE,
     repeat |-> FALSE]

\* ---------------------------------------------------------------- inputs
Secret == "secret"
AuthEnvs == {None, Some(""), Some(Secret)}
Tokens == {None, Some(Secret), Some("wrong")}

ControlValues ==
    {<<"jetson_clocks", V_on>>, <<"jetson_clocks", V_off>>, <<"jetson_clocks", V_bogus>>,
     <<"nvpmodel", V_MAXN>>, <<"nvpmodel", V_W15>>, <<"nvpmodel", V_bogus>>,
     <<"fan", V_s50>>, <<"fan", V_s150>>, <<"fan", V_s300>>, <<"fan", V_bogus>>,
     <<"cpu_governor", V_performance>>, <<"cpu_governor", V_bogus>>,
     <<"gpu_governor", V_performance>>,
     <<"gpu_railgate", V_on>>,
     <<"reboot", V_on>>}

\* every control value with the right token; the other tokens on two of them
Requests ==
    {Req(t) : t \in RequestTypes \ {"SetControl"}}
        \cup {SetControl(cv[1], cv[2], Some(Secret)) : cv \in ControlValues}
        \cup {SetControl(cv[1], cv[2], tok) :
                 cv \in {<<"jetson_clocks", V_on>>, <<"fan", V_s50>>},
                 tok \in Tokens}

\* the requests a client sends in the binary encoding
CborRequests ==
    {Req("GetStats"), Req("GetHealth"),
     SetControl("fan", V_s50, Some(Secret)), SetControl("fan", V_s150, Some(Secret)),
     SetControl("jetson_clocks", V_on, None)}

\* payloads that neither decoder accepts: empty, truncated, a request of
\* no known variant, an unknown framing
Garbage == {<<>>, <<"json">>, to_cbor(Req("Reboot")), <<"xml", GetStats>>}

Payloads ==
    {to_json(r) : r \in Requests} \cup {to_cbor(r) : r \in CborRequests} \cup Garbage

\* what the handling of a payload consults on the host
Consults(buf) ==
    LET req == decode_request(buf).req IN
    IF req.type # "SetControl" THEN "none"
    ELSE IF req.control = "jetson_clocks" THEN "clocks"
    ELSE IF req.control \in {"nvpmodel", "fan"} THEN "cmd"
    ELSE IF req.control = "cpu_governor" THEN "cpu"
    ELSE "none"

InitOutcomes == {[AllGood EXCEPT !.show_ok = b] : b \in BOOLEAN}

Snapshots == {"snapshot_a", "snapshot_b"}

CollectorMessages ==
    {[type |-> "Stats", body |-> x] : x \in Snapshots}
        \cup {[type |-> "SourceLabel", body |-> "synthetic generator"]}
        \cup {[type |-> "Error", body |-> "socket error"]}

\* ---------------------------------------------------------------- daemon specification
\* main, lines 32-37: ControlManager::new() on the host the daemon runs on
Init ==
    /\ host \in Hosts
    /\ auth_env \in AuthEnvs
    /\ auth_env # None => host = HostJetson(FALSE, [i \in CpuIds |-> TRUE], TRUE)
    /\ \E o \in InitOutcomes :
          \E m \in {from_hardware(detect(host), FALSE, host, o)} :
             control = [status |-> m.status, mock |-> m.mock]
    /\ health = HealthTracker_new
    /\ latest_stats = None
    /\ source_label = "initializing"
    /\ calls = 0
    /\ poisoned = {}
    /\ coll = collector_new("AutoCommand")
    /\ conn = [i \in 1..MaxConns |-> NoConn]
    /\ parsed = NoParse
    /\ thr = NoThreads
    /\ last = LastNone("init")

\* one connection handed to handle_client by the accept loop (main, lines 75-89)
Serve(buf) ==
    \E o \in OutcomesOf(Consults(buf)) :
    \E r \in {handle_client(Daemon, buf, o)} :
       /\ control' = [status |-> r.s.status, mock |-> r.s.mock]
       /\ host' = r.s.host
       /\ health' = r.health
       /\ last' = Last("request", r.req.type, r.req.value, buf, r.req, r.resp, r.wire, r.s,
                       last.kind = "request" /\ last.payload = buf
                           /\ last.resp.type = "ControlState")

HandleClient ==
    /\ health.total_requests < MaxRequests
    /\ \E buf \in Payloads : Serve(buf)
    /\ UNCHANGED <<latest_stats, source_label, auth_env, thr, parsed, calls, poisoned, coll, conn>>

Drain ==
    /\ \E msg \in CollectorMessages :
          /\ msg.type = "Stats" => health.stats_collected < MaxStats
          /\ \E d \in {drain(Daemon, msg)} :
             /\ latest_stats' = d.latest_stats
             /\ source_label' = d.source_label
             /\ health' = d.health
          /\ last' = [LastNone("drain") EXCEPT !.op = msg.type, !.arg = <<msg.body>>]
    /\ UNCHANGED <<control, host, auth_env, thr, parsed, calls, poisoned, coll, conn>>

Next == HandleClient \/ Drain

Spec == Init /\ [][Next]_vars

\* ---------------------------------------------------------------- daemon with failing locks
\* The daemon when threads may panic while they hold one of the mutexes.
\* a thread panics while it holds mutex m: every later lock() of m gives Err
Panic ==
    /\ Cardinality(poisoned) < MaxPanics
    /\ \E m \in Mutexes \ poisoned : poisoned' = poisoned \cup {m}
    /\ last' = LastNone("panic")
    /\ UNCHANGED <<control, host, health, latest_stats, source_label, auth_env, thr, parsed, calls, coll, conn>>

HandleClientLocks ==
    /\ health.total_requests < MaxRequests
    /\ \E req \in {Req(t) : t \in RequestTypes \ {"SetControl"}}
                    \cup {SetControl("fan", V_s50, Some(Secret)),
                          SetControl("fan", V_s150, Some(Secret)),
                          SetControl("fan", V_s50, None)} :
          Serve(to_json(req))
    /\ UNCHANGED <<latest_stats, source_label, auth_env, thr, parsed, calls, poisoned, coll, conn>>

NextLocks == HandleClientLocks \/ Drain \/ Panic

SpecLocks == Init /\ [][NextLocks]_vars

\* ---------------------------------------------------------------- library specification
\* The ControlManager used directly, as the terminal UI (src/src/main.rs
\* lines 70-72) and the tests (src/tests/control_mocks.rs) do: constructed
\* by new() or mock(hw), then any sequence of mutator calls.
InitLib ==
    /\ host \in Hosts
    /\ \E mock \in BOOLEAN :
       \E hw \in (IF mock THEN {mock_hw(TRUE), mock_hw(FALSE), detect(host)}
                  ELSE {detect(host)}) :
       \E o \in InitOutcomes :
       \E m \in {from_hardware(hw, mock, host, o)} :
          control = [status |-> m.status, mock |-> m.mock]
    /\ health = HealthTracker_new
    /\ latest_stats = None
    /\ source_label = "initializing"
    /\ auth_env = None
    /\ calls = 0
    /\ poisoned = {}
    /\ coll = collector_new("AutoCommand")
    /\ conn = [i \in 1..MaxConns |-> NoConn]
    /\ parsed = NoParse
    /\ thr = NoThreads
    /\ last = LastNone("init")

JetsonClocksArgs == {V_on, V_off, V_toggle, V_empty, V_bogus}
NvpmodelArgs == {None, Some(V_MODE_1), Some(V_MAXN), Some(V_bogus)}
FanArgs == {0, 80, 100, 101, 150}
GovernorArgs == {V_performance, V_ondemand, V_bogus}
RailgateArgs == {V_auto, V_on, V_bogus}
ApplyArgs ==
    ControlValues \cup {<<"jetson_clocks", V_toggle>>, <<"nvpmodel", V_MODE_1>>,
                        <<"fan", <<"8", "0">>>>, <<"gpu_governor", V_bogus>>,
                        <<"gpu_railgate", V_auto>>, <<"gpu_railgate", V_bogus>>}

ApplyConsults(name) ==
    IF name = "jetson_clocks" THEN "clocks"
    ELSE IF name \in {"nvpmodel", "fan"} THEN "cmd"
    ELSE IF name = "cpu_governor" THEN "cpu"
    ELSE IF name \in {"gpu_governor", "gpu_railgate"} THEN "gpu"
    ELSE "none"

\* r is the manager after the call
Called(op, arg, r) ==
    /\ calls < MaxCalls
    /\ calls' = calls + 1
    /\ control' = [status |-> r.status, mock |-> r.mock]
    /\ host' = r.host
    /\ last' = Last("call", op, arg, <<>>, NoReq, NoResp, <<>>, r,
                    last.kind = "call" /\ last.op = op /\ last.arg = arg)
    /\ UNCHANGED <<health, latest_stats, source_label, auth_env, thr, parsed, poisoned, coll, conn>>

CallToggleJetsonClocks ==
    \E o \in OutcomesOf("clocks") :
    \E r \in {toggle_jetson_clocks(Manager, o)} :
       Called("toggle_jetson_clocks", <<>>, r)

CallSetJetsonClocks ==
    \E value \in JetsonClocksArgs, o \in OutcomesOf("clocks") :
    \E r \in {set_jetson_clocks(Manager, value, o)} :
       Called("set_jetson_clocks", value, r)

CallCycleNvpmodel ==
    \E o \in OutcomesOf("cmd") :
    \E r \in {cycle_nvpmodel(Manager, o)} :
       Called("cycle_nvpmodel", <<>>, r)

CallSetNvpmodelMode ==
    \E mode \in NvpmodelArgs, o \in OutcomesOf("cmd") :
    \E r \in {set_nvpmodel_mode(Manager, mode, o)} :
       Called("set_nvpmodel_mode", unwrap_or(mode, V_empty), r)

CallSetFan ==
    \E percent \in FanArgs, o \in OutcomesOf("cmd") :
    \E r \in {set_fan(Manager, percent, o)} :
       Called("set_fan", to_string(percent), r)

CallSetCpuGovernor ==
    \E governor \in GovernorArgs, o \in OutcomesOf("cpu") :
    \E r \in {set_cpu_governor(Manager, governor, o)} :
       Called("set_cpu_governor", governor, r)

CallSetGpuGovernor ==
    \E governor \in GovernorArgs, o \in OutcomesOf("gpu") :
    \E r \in {set_gpu_governor(Manager, governor, o)} :
       Called("set_gpu_governor", governor, r)

CallSetGpuRailgate ==
    \E mode \in RailgateArgs, o \in OutcomesOf("gpu") :
    \E r \in {set_gpu_railgate(Manager, mode, o)} :
       Called("set_gpu_railgate", mode, r)

CallApplyControl ==
    \E a \in ApplyArgs :
    \E o \in OutcomesOf(ApplyConsults(a[1])) :
    \E r \in {apply_control(Manager, a[1], a[2], o)} :
       Called("apply_control", <<a[1]>> \o a[2], r)

NextLib ==
    \/ CallToggleJetsonClocks
    \/ CallSetJetsonClocks
    \/ CallCycleNvpmodel
    \/ CallSetNvpmodelMode
    \/ CallSetFan
    \/ CallSetCpuGovernor
    \/ CallSetGpuGovernor
    \/ CallSetGpuRailgate
    \/ CallApplyControl

SpecLib == InitLib /\ [][NextLib]_vars

\* ---------------------------------------------------------------- collector specification
\* The collector thread of start_collector(mode), in any of its modes and
\* any environment; the results of its polls and the lines of its child
\* process are chosen by the environment.
InitCollector ==
    /\ host = HostGeneric
    /\ \E m \in {from_hardware(detect(host), FALSE, host, AllGood)} :
          control = [status |-> m.status, mock |-> m.mock]
    /\ health = HealthTracker_new
    /\ latest_stats = None
    /\ source_label = "initializing"
    /\ auth_env = None
    /\ calls = 0
    /\ poisoned = {}
    /\ \E mode \in {"AutoCommand", "PreferSocket", "SocketOnly"} : coll = collector_new(mode)
    /\ conn = [i \in 1..MaxConns |-> NoConn]
    /\ parsed = NoParse
    /\ thr = NoThreads
    /\ last = LastNone("init")

\* c is the collector after the step
Collect(c) ==
    /\ coll' = c
    /\ UNCHANGED <<control, host, health, latest_stats, source_label, auth_env, thr, parsed, calls,
                   poisoned, conn, last>>

Start ==
    /\ coll.pc = "new"
    /\ \E env \in [socket_env : BOOLEAN, default_sock : BOOLEAN, legacy_sock : BOOLEAN,
                    stats_cmd : {"unset", "blank", "program"},
                    force_emulator : BOOLEAN, is_jetson : BOOLEAN] :
          Collect(spawn_collection_loop(coll, env))

\* read_once_from_socket gives a SocketResponse, with or without stats, or fails
Poll ==
    /\ coll.pc = "socket"
    /\ coll.polls < MaxPolls
    /\ \E res \in {[ok |-> TRUE, source |-> "tegrastats real", stats |-> Some("snapshot_a")],
                    [ok |-> TRUE, source |-> "tegrastats real", stats |-> None],
                    [ok |-> FALSE, source |-> "", stats |-> None]} :
          Collect(socket_poll(coll, res))

\* lines 54-58: one line of the child's output, parsed or not
CommandLine ==
    /\ coll.pc = "command"
    /\ coll.polls < MaxLines
    /\ \E stats \in {Some("snapshot_a"), None} :
          Collect([coll EXCEPT !.polls = @ + 1,
                               !.trace = @ \o (IF is_some(stats)
                                               THEN <<Sent("Stats", stats[1])>> ELSE <<>>)])

\* lines 59-65: the child could not be spawned, or its output has ended
CommandEnd ==
    /\ coll.pc = "command"
    /\ Collect(run_synthetic(coll))

\* lines 228-232: one iteration of the loop of run_synthetic
Tick ==
    /\ coll.pc = "synthetic"
    /\ coll.ticks < MaxTicks
    /\ Collect([coll EXCEPT !.ticks = @ + 1,
                            !.trace = @ \o <<Sent("Stats", "synthetic"), Slept(Interval)>>])

\* the consumer drops the StatsCollector, and with it the Receiver
DropReceiver ==
    /\ coll.rx_dropped_at = -1
    /\ Collect([coll EXCEPT !.rx_dropped_at = Len(coll.trace)])

NextCollector == Start \/ Poll \/ CommandLine \/ CommandEnd \/ Tick \/ DropReceiver

SpecCollector == InitCollector /\ [][NextCollector]_vars

\* the collector thread is scheduled: the loop of run_synthetic, which only
\* sleeps and sends, goes on
SpecCollectorFair == InitCollector /\ [][NextCollector]_vars /\ WF_vars(Tick)

\* ---------------------------------------------------------------- socket specification
\* The daemon with the peers of its socket. A peer is one of
\*   "request":  connect, write_all(request), read to end-of-stream, as
\*               jetsonscopectl, jetson_scope_config, the examples and
\*               tests/integration_socket.rs do;
\*   "shutdown": the same with the write side shut down after the request;
\*   "collector": connect and read to end-of-stream, as read_once_from_socket does.
\* The accept loop hands the stream to a handler thread, which starts in
\* read_to_end (line 142).
Connect ==
    \E i \in 1..MaxConns :
       /\ conn[i].client = "none"
       /\ \E kind \in {"request", "shutdown", "collector"} :
          \E req \in {Req("GetStats"), Req("GetMeta"), Req("GetHealth"),
                        SetControl("fan", V_s50, None)} :
             conn' = [conn EXCEPT ![i] =
                         [client |-> kind, pc |-> "reading",
                          buf |-> IF kind = "collector" THEN <<>> ELSE to_json(req),
                          eof |-> kind = "shutdown",
                          server |-> "reading", wire |-> <<>>, recv |-> <<>>]]
       /\ UNCHANGED <<control, host, health, latest_stats, source_label, auth_env, thr, parsed, calls,
                      poisoned, coll, last>>

\* read_to_end returns at end-of-stream; then the request is handled, the
\* response written and the stream dropped
DaemonServe ==
    \E i \in 1..MaxConns :
       /\ conn[i].server = "reading"
       /\ conn[i].eof
       /\ Serve(conn[i].buf)
       /\ conn' = [conn EXCEPT ![i].server = "closed", ![i].wire = last'.wire]
       /\ UNCHANGED <<latest_stats, source_label, auth_env, thr, parsed, calls, poisoned, coll>>

\* the peer's read to end-of-stream returns once the daemon dropped the stream
ClientRead ==
    \E i \in 1..MaxConns :
       /\ conn[i].pc = "reading"
       /\ conn[i].server = "closed"
       /\ conn' = [conn EXCEPT ![i].pc = "done", ![i].recv = conn[i].wire]
       /\ UNCHANGED <<control, host, health, latest_stats, source_label, auth_env, thr, parsed, calls,
                      poisoned, coll, last>>

\* the peer process is killed while it reads: its socket is closed
ClientExit ==
    \E i \in 1..MaxConns :
       /\ conn[i].pc = "reading"
       /\ conn' = [conn EXCEPT ![i].pc = "gone", ![i].eof = TRUE]
       /\ UNCHANGED <<control, host, health, latest_stats, source_label, auth_env, thr, parsed, calls,
                      poisoned, coll, last>>

NextSocket == Connect \/ DaemonServe \/ ClientRead \/ ClientExit

\* the daemon started on a host that is not a Jetson, no connection yet
InitSocket == Init /\ host = HostGeneric

\* a thread that can run does run: the handler threads and the peers' reads
SpecSocket ==
    InitSocket /\ [][NextSocket]_vars /\ WF_vars(DaemonServe) /\ WF_vars(ClientRead)

\* ---------------------------------------------------------------- parser specification
Values ==
    {<<kind, p>> : kind \in {"bracket", "valfreq", "pct", "bare"}, p \in {3, 6}}
        \cup {<<"off", 0>>}

Units == {Unit(prefix, W) : prefix \in {"", "m", "M", "k", "K"}, W \in BOOLEAN}

Fields ==
    {Field(n, v[1], v[2], 305) : n \in EngineNames, v \in Values}
        \cup {Watt(n, 5, cu, 7, au) : n \in RailNames, cu \in Units, au \in Units}

Lines == UNION {[1..n -> Fields] : n \in 0..MaxFields}

\* 3, 2^44 - 1, 2^44, 2^54 - 1, 2^54, 2^64 - 1
U64s ==
    {U64(3, 0, 0, 0, 0, 0, 0),
     U64(1023, 1023, 1023, 1023, 15, 0, 0), U64(0, 0, 0, 0, 16, 0, 0),
     U64(1023, 1023, 1023, 1023, 1023, 15, 0), U64(0, 0, 0, 0, 0, 16, 0),
     U64Max}

Memories ==
    {<<>>} \cup
    {<<Memory(kind, used, U64(0, 0, 0, 0, 0, 16, 0), U, U64(3, 0, 0, 0, 0, 0, 0), size, U2)>> :
        kind \in {"RAM", "SWAP", "IRAM"}, used \in U64s, U \in {"k", "M", "G"},
        size \in {U64(3, 0, 0, 0, 0, 0, 0), U64(0, 0, 0, 0, 16, 0, 0)}, U2 \in {"K", "m"}}

\* TegraStats::parse on one line: the engines of the payload
ParseLine ==
    /\ parsed.lines < MaxParses
    /\ \E text \in Lines, mem \in Memories :
          /\ mem # <<>> => Len(text) < MaxFields
          /\ parsed' = [text |-> text, mem |-> mem, engines |-> parse_engines(text),
                        power |-> parse_power(text),
                        ram |-> parse_memory("RAM", mem),
                        swap |-> parse_memory("SWAP", mem),
                        iram |-> parse_memory("IRAM", mem),
                        lines |-> parsed.lines + 1]
    /\ UNCHANGED <<control, host, health, latest_stats, source_label, auth_env, thr, calls,
                   poisoned, coll, conn, last>>

NextParser == ParseLine

\* nothing parsed yet
InitParser == Init /\ host = HostGeneric

SpecParser == InitParser /\ [][NextParser]_vars

\* ---------------------------------------------------------------- thread specification
\* The daemon's threads interleaved at the grain of lock operations: the
\* connection workers, the collector-drain task, the telemetry logger and
\* the HTTP metrics task.
Job(kind, ops) == [kind |-> kind, ops |-> ops]

RequestKinds ==
    {"GetStats", "GetHealth", "GetMeta", "ListControls", "SetControl denied",
     "SetControl failed", "SetControl"}

DrainMessages ==
    {[type |-> "Stats", body |-> "snapshot_a"], [type |-> "Stats", body |-> "snapshot_b"],
     [type |-> "SourceLabel", body |-> "tegrastats real"],
     [type |-> "SourceLabel", body |-> "socket error"],
     [type |-> "Error", body |-> "socket error"]}

JobsOf(t) ==
    IF t \in WorkerThreads THEN {Job(k, handle_client_ops(k)) : k \in RequestKinds}
    ELSE IF t = "drain" THEN {Job(msg.type, drain_ops(msg)) : msg \in DrainMessages}
    ELSE IF t = "telemetry" THEN {Job("flush", telemetry_ops)}
    ELSE {Job("metrics", build_metrics)}

\* the (label, slot) pairs seen by the GetStats handlings in progress
Seen(threads, label, slot) ==
    [x \in Threads |->
        IF threads[x].job = "GetStats" /\ ~threads[x].answered
        THEN [threads[x] EXCEPT !.instants = @ \cup {<<label, slot>>}]
        ELSE threads[x]]

\* a connection is handed to a worker, a message reaches the drain task,
\* the telemetry interval elapses, an HTTP request arrives
StartBounded(max) ==
    /\ thr.jobs < max
    /\ \E t \in Threads :
          /\ thr.t[t].todo = <<>>
          /\ \E job \in JobsOf(t) :
                thr' = [thr EXCEPT !.jobs = @ + 1,
                                   !.t = Seen([@ EXCEPT ![t] =
                                                  [Idle EXCEPT !.job = job.kind,
                                                               !.todo = job.ops]],
                                              source_label, latest_stats)]
    /\ UNCHANGED <<control, host, health, latest_stats, source_label, auth_env, calls,
                   poisoned, coll, conn, parsed, last>>

StartJob == StartBounded(MaxJobs)

StartFairJob == StartBounded(MaxFairJobs)

\* the next operation of thread t
Step(t) ==
    /\ thr.t[t].todo # <<>>
    /\ LET op == Head(thr.t[t].todo)
           me == [thr.t[t] EXCEPT
                     !.todo = Tail(@),
                     !.data = IF op.op = "read_stats" THEN latest_stats ELSE @,
                     !.source = IF op.op = "read_label" THEN source_label ELSE @,
                     !.answered = op.op = "write_response"]
       IN /\ op.op = "acq" => thr.owner[op.arg] = ""
          /\ latest_stats' = IF op.op = "write_stats" THEN Some(op.arg) ELSE latest_stats
          /\ source_label' = IF op.op = "write_label" THEN op.arg ELSE source_label
          /\ health' = IF op.op = "record_request" THEN record_request(health)
                        ELSE IF op.op = "record_error"
                        THEN record_error(health, Msg("error", V_empty))
                        ELSE IF op.op = "record_stats_collection"
                        THEN record_stats_collection(health)
                        ELSE health
          /\ thr' = [thr EXCEPT
                        !.owner = IF op.op = "acq" THEN [@ EXCEPT ![op.arg] = t]
                                  ELSE IF op.op = "rel" THEN [@ EXCEPT ![op.arg] = ""]
                                  ELSE @,
                        !.t = Seen([@ EXCEPT ![t] = me], source_label', latest_stats')]
    /\ UNCHANGED <<control, host, auth_env, calls, poisoned, coll, conn, parsed, last>>

NextThreads == StartJob \/ \E t \in Threads : Step(t)

InitThreads == Init /\ host = HostGeneric

SpecThreads == InitThreads /\ [][NextThreads]_vars

NextThreadsFair == StartFairJob \/ \E t \in Threads : Step(t)

\* the threads are scheduled preemptively: a thread that can run does run
SpecThreadsFair ==
    InitThreads /\ [][NextThreadsFair]_vars /\ \A t \in Threads : WF_vars(Step(t))

\* ---------------------------------------------------------------- properties
IsRequest == last.kind = "request"

IsSetControl == IsRequest /\ last.req.type = "SetControl"

IsError(code) == last.resp.type = "Error" /\ last.resp.body.code = code

TextDecodes(buf, Types) == is_some(json_from_slice(buf, Types))

BinaryDecodes(buf, Types) == is_some(cbor_from_slice(buf, Types))

TokenRequired == is_some(auth_env) /\ auth_env[1] # ""

TokenMatches == is_some(last.req.token) /\ is_some(auth_env) /\ last.req.token[1] = auth_env[1]

Authorized == ~TokenRequired \/ TokenMatches

\* the status without last_error
ExceptLastError(st) == [st EXCEPT !.last_error = None]

\* the observable control values
Observable(st) ==
    <<st.jetson_clocks, st.fan, st.nvpmodel, st.cpu_governor, st.gpu_governor,
      st.gpu_railgate>>

\* C1: the response is written in the binary encoding exactly when the
\* text decode of the payload failed and the binary decode succeeded, and
\* in the text encoding in every other case.
C1_ResponseEncoding ==
    IsRequest =>
        IF ~TextDecodes(last.payload, RequestTypes) /\ BinaryDecodes(last.payload, RequestTypes)
        THEN BinaryDecodes(last.wire, ResponseTypes) /\ ~TextDecodes(last.wire, ResponseTypes)
        ELSE TextDecodes(last.wire, ResponseTypes) /\ ~BinaryDecodes(last.wire, ResponseTypes)

C1_Witness ==
    /\ IsRequest
    /\ BinaryDecodes(last.payload, RequestTypes)
    /\ last.req.type = "SetControl"
    /\ BinaryDecodes(last.wire, ResponseTypes)

\* C2: with the auth token set and non-empty, a SetControl whose token is
\* absent or different is answered with Error auth_failed and the error
\* counter grows by one.
C2_AuthFailed ==
    (IsSetControl /\ TokenRequired /\ ~TokenMatches) =>
        /\ IsError("auth_failed")
        /\ health.errors = last.pre_health.errors + 1

C2_Witness ==
    /\ IsSetControl
    /\ TokenRequired
    /\ last.req.token = Some("wrong")
    /\ IsError("auth_failed")
    /\ health.errors = 2

\* C3: auth_failed is returned only to a SetControl and only when the auth
\* token is set and non-empty; with it unset or empty every SetControl
\* passes authorization, and the read requests never get auth_failed.
C3_AuthFailedOnly ==
    (IsRequest /\ IsError("auth_failed")) => (last.req.type = "SetControl" /\ TokenRequired)

C3_Witness ==
    /\ IsSetControl
    /\ auth_env = Some("")
    /\ last.req.token = Some("wrong")
    /\ last.resp.type = "ControlState"

\* a value outside the control's advertised options or numeric range
OutsideOptions(st, name, value) ==
    IF name = "jetson_clocks" THEN value \notin {V_on, V_off}
    ELSE IF name = "nvpmodel" THEN ~contains(st.nvpmodel_modes, value)
    ELSE IF name = "fan" THEN ~is_some(parse_u8(value)) \/ parse_u8(value)[1] > 100
    ELSE IF name = "cpu_governor" THEN ~contains(st.cpu_governor_modes, value)
    ELSE FALSE

\* a value that fails validation: out of the numeric range or not in the
\* capability set detected on the board
FailsValidation(st, name, value) ==
    name \in {"nvpmodel", "fan", "cpu_governor"} /\ OutsideOptions(st, name, value)

\* C4: an authorized SetControl whose value is outside the control's
\* options or range is answered with Error and leaves the ControlStatus
\* as it was in every field except last_error.
C4_InvalidValueRejected ==
    (IsSetControl /\ Authorized
        /\ OutsideOptions(last.pre, last.req.control, last.req.value)) =>
        /\ last.resp.type = "Error"
        /\ ExceptLastError(control.status) = ExceptLastError(last.pre)

\* C5: a SetControl that fails validation is answered with Error
\* invalid_control; SetControl{fan, 150} leaves last_error mentioning 0-100
\* and the fan value unchanged.
C5_ValidationIsInvalidControl ==
    (IsSetControl /\ Authorized
        /\ FailsValidation(last.pre, last.req.control, last.req.value)) =>
        /\ IsError("invalid_control")
        /\ (last.req.control = "fan" /\ last.req.value = V_s150) =>
              /\ is_some(control.status.last_error)
              /\ Mentions0to100(control.status.last_error[1])
              /\ control.status.fan = last.pre.fan

\* C6: when a host utility exits non-zero or a sysfs write fails during an
\* authorized SetControl with a valid value, the answer is Error
\* control_error.
C6_PlatformFailureIsControlError ==
    (IsSetControl /\ Authorized /\ last.host_failed
        /\ ~OutsideOptions(last.pre, last.req.control, last.req.value)) =>
        IsError("control_error")

Mutators ==
    {"toggle_jetson_clocks", "set_jetson_clocks", "cycle_nvpmodel", "set_nvpmodel_mode",
     "set_fan", "set_cpu_governor", "set_gpu_governor", "set_gpu_railgate"}

\* C7: when a mutator call ends in error, the observable control values
\* are those of before the call and last_error holds the error of the call.
C7_ErrorPreservesAndRecords ==
    (last.kind = "call" /\ last.op \in Mutators /\ is_some(last.error)) =>
        /\ Observable(control.status) = Observable(last.pre)
        /\ control.status.last_error = last.error

\* the observable value of the control is the value the call applied
Applied ==
    IF last.op = "set_fan"
    THEN control_info(control.status, "fan").value = last.arg \o V_pct
    ELSE IF last.op = "set_nvpmodel_mode" /\ last.arg # V_empty
    THEN control_info(control.status, "nvpmodel").value = last.arg
    ELSE IF last.op = "set_jetson_clocks" /\ last.arg \in {V_on, V_off}
    THEN control_info(control.status, "jetson_clocks").value = last.arg
    ELSE IF last.op = "set_cpu_governor"
    THEN control_info(control.status, "cpu_governor").value = last.arg
    ELSE IF last.op = "set_gpu_governor"
    THEN control_info(control.status, "gpu_governor").value = last.arg
    ELSE IF last.op = "set_gpu_railgate"
    THEN control_info(control.status, "gpu_railgate").value = last.arg
    ELSE TRUE

\* C8: when a mutator call succeeds, last_error is None and the observable
\* value of the control is the value applied.
C8_SuccessClearsAndApplies ==
    (last.kind = "call" /\ last.op \in Mutators /\ ~is_some(last.error)) =>
        /\ control.status.last_error = None
        /\ Applied

\* C9: a second authorized SetControl with the same control and valid value
\* as the one before it leaves the observable ControlStatus as the first
\* left it.
C9_Idempotent ==
    (IsSetControl /\ Authorized /\ last.repeat /\ last.resp.type = "ControlState"
        /\ ~OutsideOptions(last.pre, last.req.control, last.req.value)) =>
        Observable(control.status) = Observable(last.pre)

\* C10: on a manager created in mock mode no mutator invokes a host
\* utility or writes a sysfs path.
C10_MockNoHostAction ==
    (last.kind = "call" /\ control.mock) => last.log = <<>>

\* C11: on a host that is not a Jetson (available = FALSE) every mutator
\* call fails with the message "No es Jetson (demo)", performs no host
\* action and leaves the control values and the capability flags unchanged.
C11_NonJetsonSentinel ==
    (last.kind = "call" /\ last.op \in Mutators /\ ~last.pre.available) =>
        /\ last.error = Some(Msg("No es Jetson (demo)", V_empty))
        /\ last.log = <<>>
        /\ ExceptLastError(control.status) = ExceptLastError(last.pre)

\* C12: set_cpu_governor with a valid governor reports success and sets
\* cpu_governor when the scaling_governor write succeeded for at least one
\* present CPU, also when a write to another CPU failed; it reports failure
\* only when no write succeeded.  (The log holds one entry per write
\* attempted; host_failed says that the last of them failed.)
C12_PartialWriteTolerated ==
    (last.kind = "call" /\ last.op = "set_cpu_governor" /\ last.log # <<>>) =>
        IF Len(last.log) - (IF last.host_failed THEN 1 ELSE 0) >= 1
        THEN last.ret.ok /\ control.status.cpu_governor = Some(last.arg)
        ELSE ~last.ret.ok

SixControls ==
    {"jetson_clocks", "nvpmodel", "fan", "cpu_governor", "gpu_governor", "gpu_railgate"}

\* C13: an authorized SetControl is rejected as an unknown control exactly
\* when its control name is not one of the six recognized controls.
C13_SixControlsDispatched ==
    (IsSetControl /\ Authorized) =>
        ((IsError("invalid_control")
            /\ last.resp.body.message = Msg("Unknown control", V_empty))
         <=> last.req.control \notin SixControls)

\* the response variant paired with a request variant
Paired(type) ==
    IF type = "GetStats" THEN "Stats"
    ELSE IF type = "GetMeta" THEN "Meta"
    ELSE IF type = "ListControls" THEN "Controls"
    ELSE IF type = "GetHealth" THEN "Health"
    ELSE "ControlState"

\* C14: the response written is the variant paired with the decoded
\* request or it is Error; a payload that decodes in neither encoding is
\* handled as GetStats and answered with Stats.
C14_ResponseVariant ==
    IsRequest =>
        /\ last.resp.type \in {Paired(last.req.type), "Error"}
        /\ (~TextDecodes(last.payload, RequestTypes)
              /\ ~BinaryDecodes(last.payload, RequestTypes)) =>
                 (last.req = GetStats /\ last.resp.type = "Stats")

C14_Witness ==
    /\ IsRequest
    /\ last.payload \in Garbage
    /\ last.resp.type = "Stats"
    /\ TextDecodes(last.wire, ResponseTypes)

\* the mutexes the handling of the last request has to acquire for its answer
LocksNeeded ==
    IF last.req.type = "GetStats" THEN {"latest_stats", "source_label"}
    ELSE IF last.req.type = "GetHealth" THEN {"health"}
    ELSE IF last.req.type = "ListControls" THEN {"control"}
    ELSE IF last.req.type = "SetControl" /\ Authorized THEN {"control"}
    ELSE {}

\* C15: for every request kind, when a lock the request needs cannot be
\* acquired (snapshot slot or label for GetStats, health for GetHealth,
\* control manager for ListControls and SetControl), the daemon answers
\* Error{code: lock_error}.
C15_LockErrorOnLockFailure ==
    (IsRequest /\ LocksNeeded \cap poisoned # {}) => IsError("lock_error")

\* the events up to the hand-off to run_synthetic (all of them when there was none)
SocketPart ==
    LET tr == coll.trace
        at == {i \in 1..Len(tr) : tr[i] = Sent("SourceLabel", "synthetic generator")}
    IN IF at = {} THEN tr ELSE SubSeq(tr, 1, (CHOOSE i \in at : \A j \in at : i <= j) - 1)

\* the events after the hand-off label
SyntheticPart ==
    LET tr == coll.trace
        at == {i \in 1..Len(tr) : tr[i] = Sent("SourceLabel", "synthetic generator")}
    IN IF at = {} THEN <<>>
       ELSE SubSeq(tr, (CHOOSE i \in at : \A j \in at : i <= j) + 1, Len(tr))

IsSleep(e) == e.type = "sleep"

\* the failed polls at the end of tr with no successful poll after them: a
\* failed poll sends one Error, a successful one a SourceLabel other than
\* the socket error label
RECURSIVE ConsecutiveFailures(_)
ConsecutiveFailures(tr) ==
    IF tr = <<>> THEN 0
    ELSE LET e == tr[Len(tr)]
             rest == SubSeq(tr, 1, Len(tr) - 1)
         IN IF e.type = "Error" THEN 1 + ConsecutiveFailures(rest)
            ELSE IF e.type = "SourceLabel" /\ e.body # "socket error" THEN 0
            ELSE ConsecutiveFailures(rest)

\* C18: in every mode and for every selected source the first message the
\* collector puts on its channel is a SourceLabel; no Stats or Error
\* message precedes it.
C18_FirstIsSourceLabel ==
    /\ coll.pc # "new" => coll.trace # <<>>
    /\ coll.trace # <<>> => coll.trace[1].type = "SourceLabel"

C18_Witness ==
    /\ coll.mode = "SocketOnly" /\ coll.kind = "Socket"
    /\ Len(coll.trace) >= 2 /\ coll.trace[2].type = "Stats"

\* C19: in AutoCommand and PreferSocket modes with a socket source the
\* collector has handed off to the synthetic generator exactly when 5
\* consecutive polls failed with no successful poll in between; a successful
\* poll resets the retry counter to 0 and the backoff to 1 s.
C19_HandOffAfterFiveFailures ==
    (coll.kind = "Socket" /\ coll.mode \in {"AutoCommand", "PreferSocket"}) =>
        /\ (coll.pc = "synthetic") <=> (ConsecutiveFailures(SocketPart) = 5)
        /\ coll.pc = "socket" => coll.retry_count = ConsecutiveFailures(SocketPart)
        /\ (coll.pc = "socket" /\ ConsecutiveFailures(SocketPart) = 0) =>
               (coll.retry_count = 0 /\ coll.backoff_ms = 1000)

C19_Witness ==
    /\ coll.kind = "Socket" /\ coll.mode = "PreferSocket"
    /\ coll.pc = "synthetic" /\ coll.polls = 6

\* C20: in AutoCommand mode on a socket whose polls all fail, the collector
\* emits SourceLabel(socket error) for 5 retries, waits 1, 2, 4, 8 and 10
\* seconds in that order, then emits a SourceLabel beginning with synthetic
\* followed by Stats only, one per second.
C20_AlwaysFailingSocket ==
    (coll.mode = "AutoCommand" /\ coll.kind = "Socket" /\ coll.pc = "synthetic"
        /\ coll.polls = 5) =>
        /\ Len(SelectSeq(SocketPart, LAMBDA e : e = Sent("SourceLabel", "socket error"))) = 5
        /\ [i \in 1..Len(SelectSeq(SocketPart, IsSleep)) |->
               SelectSeq(SocketPart, IsSleep)[i].ms] = <<1000, 2000, 4000, 8000, 10000>>
        /\ \A i \in 1..Len(SyntheticPart) :
               SyntheticPart[i] = IF i % 2 = 1 THEN Sent("Stats", "synthetic") ELSE Slept(1000)

\* C16: a client that connects, writes one text-encoded request and then
\* reads the stream to end-of-stream eventually obtains one decodable
\* response, on a first connection and on a later one alike.
C16_RoundTrip ==
    \A i \in 1..MaxConns :
       (conn[i].client = "request" /\ conn[i].pc = "reading")
           ~> (conn[i].pc = "gone"
                \/ (conn[i].pc = "done" /\ TextDecodes(conn[i].recv, ResponseTypes)))

\* C17: a poll of the collector against the daemon's socket completes and
\* yields a snapshot taken from the daemon's Stats response.
C17_CollectorPollCompletes ==
    \A i \in 1..MaxConns :
       (conn[i].client = "collector" /\ conn[i].pc = "reading")
           ~> (conn[i].pc = "gone"
                \/ (conn[i].pc = "done" /\ read_once_from_socket(conn[i].recv).ok))

\* the labels and the snapshots of the synthetic generator
IsSynthetic(e) ==
    \/ e.type = "SourceLabel"
          /\ e.body \in {"synthetic generator", "synthetic (socket missing)",
                         "synthetic (socket preferred, none found)"}
    \/ e = Sent("Stats", "synthetic")

\* C21 as stated: no execution of a SocketOnly collector emits a synthetic
\* SourceLabel or synthetic Stats.
C21_SocketOnlyNeverSynthetic ==
    coll.mode = "SocketOnly" => \A i \in 1..Len(coll.trace) : ~IsSynthetic(coll.trace[i])

\* C21 amended: a SocketOnly collector whose selected source is a socket
\* retries without limit and never hands off to the synthetic generator (no
\* synthetic SourceLabel, no synthetic Stats); when no socket is configured
\* or present it selects the synthetic generator directly.
C21_SocketOnlySocketNeverSynthetic ==
    (coll.mode = "SocketOnly" /\ coll.pc # "new") =>
        IF coll.kind = "Socket"
        THEN /\ coll.pc = "socket"
             /\ \A i \in 1..Len(coll.trace) : ~IsSynthetic(coll.trace[i])
        ELSE /\ coll.kind = "Synthetic"
             /\ coll.trace[1] = Sent("SourceLabel", "synthetic (socket missing)")

C21_Witness ==
    /\ coll.mode = "SocketOnly" /\ coll.kind = "Socket"
    /\ coll.pc = "socket" /\ coll.retry_count = 6

\* C22: in PreferSocket mode the selected source is a socket or else the
\* synthetic generator directly; for no environment does PreferSocket
\* start a child process.
C22_PreferSocketNoChild ==
    (coll.mode = "PreferSocket" /\ coll.pc # "new") =>
        /\ coll.kind \in {"Socket", "Synthetic"}
        /\ coll.pc # "command"
        /\ coll.kind = "Synthetic" =>
               coll.trace[1] = Sent("SourceLabel", "synthetic (socket preferred, none found)")

\* the sends attempted since the Receiver was dropped
SendsAfterDrop ==
    SelectSeq(SubSeq(coll.trace, coll.rx_dropped_at + 1, Len(coll.trace)),
              LAMBDA e : e.type # "sleep")

\* C23: once the consumer side of the channel has been dropped, the
\* collector terminates at its next send, whatever its source: it attempts
\* at most one send after the drop.
C23_StopsAtNextSend ==
    coll.rx_dropped_at >= 0 => Len(SendsAfterDrop) <= 1

\* C24: every Error event the daemon's consumer task drains from the
\* collector channel is recorded to the health tracker: the error counter
\* increases by one and last_error is that event's message.
C24_DrainedErrorRecorded ==
    (last.kind = "drain" /\ last.op = "Error") =>
        /\ health.errors = last.pre_health.errors + 1
        /\ health.last_error = Some(Msg(last.arg[1], V_empty))

\* C25: draining an Error or a SourceLabel event never changes the
\* latest-snapshot slot; a drained Stats message leaves its payload in the
\* slot, so the slot holds the payload of the most recent Stats drained; and
\* a slot that holds a snapshot never becomes empty again.
C25_SlotHoldsLatestStats ==
    [][/\ (last'.kind = "drain" /\ last'.op = "Stats") =>
              latest_stats' = Some(last'.arg[1])
       /\ ~(last'.kind = "drain" /\ last'.op = "Stats") => latest_stats' = latest_stats
       /\ latest_stats # None => latest_stats' # None]_vars

\* a second snapshot has replaced the first and an Error was drained after it
C25_Witness ==
    /\ last.kind = "drain" /\ last.op = "Error"
    /\ health.stats_collected = 2
    /\ latest_stats = Some("snapshot_b")

Counters == {"total_requests", "errors", "stats_collected"}

\* C26: no step of a connection worker or of the collector-drain task
\* decreases a health counter, and what a GetHealth observes is the value
\* the counters have at that moment; so each counter observed by a later
\* GetHealth is at least the value observed by any earlier one.
C26_CountersNeverDecrease ==
    [][/\ \A c \in Counters : health'[c] >= health[c]
       /\ (last'.kind = "request" /\ last'.resp.type = "Health") =>
              \A c \in Counters : last'.resp.body[c] = health'[c]]_vars

\* a GetHealth that observes all three counters above zero
C26_Witness ==
    /\ last.kind = "request" /\ last.resp.type = "Health"
    /\ last.resp.body.total_requests = 2
    /\ last.resp.body.errors = 1
    /\ last.resp.body.stats_collected = 2

\* C27: every Error response the daemon sends, whatever its code and the
\* kind of the request, comes with exactly one increment of the health error
\* counter, and health.last_error is then that response's message.
C27_ErrorResponseRecordedOnce ==
    (IsRequest /\ last.resp.type = "Error") =>
        /\ health.errors = last.pre_health.errors + 1
        /\ health.last_error = Some(last.resp.body.message)

\* the connections accepted and not yet answered
OpenConnections == {i \in 1..MaxConns : conn[i].server = "reading"}

\* C28: the connected_clients field of the DaemonHealth returned by a
\* GetHealth is the number of client connections open (accepted and not yet
\* answered or closed) at the moment the health snapshot is taken.
C28_ConnectedClientsCounted ==
    [][\A i \in 1..MaxConns :
          (/\ conn[i].server = "reading" /\ conn'[i].server = "closed"
           /\ last'.resp.type = "Health") =>
              last'.resp.body.connected_clients = Cardinality(OpenConnections)]_vars

IsToggle(l) == l.kind = "call" /\ l.op = "toggle_jetson_clocks"

\* C29: on a mock ControlManager, whether the injected hardware is a Jetson
\* or not, toggle_jetson_clocks leaves last_error unset; afterwards
\* control_info(jetson_clocks).value is one of on, off, unknown; and the
\* second of two consecutive toggles restores the jetson_clocks value the
\* manager had before the first.
C29_MockToggle ==
    [][(control.mock /\ calls' = calls + 1 /\ IsToggle(last')) =>
          /\ control'.status.last_error = None
          /\ control_info(control'.status, "jetson_clocks").value \in {V_on, V_off, V_unknown}
          /\ IsToggle(last) => control'.status.jetson_clocks = last.pre.jetson_clocks]_vars

\* two consecutive toggles made on a mock manager
C29_Witness ==
    /\ control.mock /\ IsToggle(last) /\ last.repeat /\ calls = 2
    /\ control.status.jetson_clocks = Some(FALSE)
    /\ last.pre.jetson_clocks = Some(TRUE)

Has(pairs, k) == \E i \in 1..Len(pairs) : pairs[i][1] = k

FirstFor(pairs, k) ==
    pairs[CHOOSE i \in 1..Len(pairs) :
              pairs[i][1] = k /\ \A j \in 1..(i - 1) : pairs[j][1] # k][2]

\* C30: the engine recognizers are applied in the order bracketed-freq,
\* general value, off, _UTIL: for every engine name the entry of the engines
\* mapping is the one produced by the first recognizer in that order that
\* matches the name in the line, and there is no entry for a name that no
\* recognizer matches (a line with both NVCSI off and NVCSI_UTIL 6% gives
\* engines[NVCSI].usage_percent = 0).
C30_FirstRecognizerWins ==
    LET text == parsed.text
        order == <<bracket_freq_entries(text), vals_entries(text),
                   off_entries(text), util_entries(text)>>
    IN \A k \in Names :
          LET rs == {r \in 1..4 : Has(order[r], k)} IN
          IF rs = {} THEN parsed.engines[k] = None
          ELSE parsed.engines[k] =
                   Some(FirstFor(order[CHOOSE r \in rs : \A q \in rs : r <= q], k))

\* C31: for every input line, no key of the parsed engines mapping is RAM,
\* SWAP, IRAM, CPU or MTS, and no key ends in _FREQ.
C31_NoStructuredNoFreqKeys ==
    \A k \in Names :
        is_some(parsed.engines[k]) => ~Structured(k) /\ k.suffix # "_FREQ"

\* milliwatts by the prefix alone
ByPrefix(u, value) == IF u.prefix \in {"k", "K"} THEN value * 1000 ELSE value

\* C32: each value of a power-rail token is normalized to milliwatts by its
\* optional unit prefix alone (m or M: as is; k or K: times 1000; none: as
\* is); a W suffix, when present, never changes the result.
C32_PowerByPrefixAlone ==
    \A i \in 1..Len(parsed.text) :
        LET fld == parsed.text[i] IN
        (/\ fld.kind = "watt"
         /\ \A j \in (i + 1)..Len(parsed.text) : parsed.text[j].name # fld.name) =>
            parsed.power[fld.name] =
                Some(PowerRail(ByPrefix(fld.units[1], fld.p), ByPrefix(fld.units[2], fld.f)))

\* the largest n with n * 1024^k below 2^64
MaxFit(k) ==
    IF k = 1 THEN U64(1023, 1023, 1023, 1023, 1023, 15, 0)
    ELSE U64(1023, 1023, 1023, 1023, 15, 0, 0)

\* a <= b as numbers
Leq(a, b) ==
    \/ a = b
    \/ \E i \in 1..7 : a[i] < b[i] /\ \A j \in (i + 1)..7 : a[j] = b[j]

\* r = n * 1024^k: r is a multiple of 1024^k and its quotient is n
IsProduct(r, n, k) ==
    /\ \A i \in 1..k : r[i] = 0
    /\ \A i \in 1..(7 - k) : r[i + k] = n[i]
    /\ \A i \in (8 - k)..7 : n[i] = 0

\* the number, when it is below 2^30
Small(v) == \A i \in 4..7 : v[i] = 0

Num(v) == v[1] + 1024 * v[2] + 1048576 * v[3]

\* r is n converted with the unit of suffix U
Converted(r, n, U) ==
    LET k == IF U \in {"k", "K"} THEN 1 ELSE 2
        factor == IF k = 1 THEN 1024 ELSE 1048576
    IN /\ Leq(n, MaxFit(k)) => IsProduct(r, n, k)
       /\ ~Leq(n, MaxFit(k)) => r = U64Max
       /\ (Small(n) /\ Small(r)) => Num(r) = Num(n) * factor

TheMemory ==
    IF is_some(parsed.ram) THEN parsed.ram[1]
    ELSE IF is_some(parsed.swap) THEN parsed.swap[1]
    ELSE parsed.iram[1]

\* C33: to_bytes gives n * 1024 for KB and n * 1048576 for MB when the
\* product fits in 64 bits and u64::MAX when it does not, and each of the
\* used, total and lfb/cached fields of a parsed memory record is the source
\* number converted with the unit of its own suffix (MB for a suffix that is
\* neither k nor m).
C33_SizesSaturate ==
    parsed.mem # <<>> =>
        /\ Cardinality({x \in {"ram", "swap", "iram"} : is_some(parsed[x])}) = 1
        /\ is_some(parsed.ram) = (parsed.mem[1].kind = "RAM")
        /\ is_some(parsed.swap) = (parsed.mem[1].kind = "SWAP")
        /\ Converted(TheMemory.used_bytes, parsed.mem[1].used, parsed.mem[1].U)
        /\ Converted(TheMemory.total_bytes, parsed.mem[1].total, parsed.mem[1].U)
        /\ Converted(TheMemory.second_bytes, parsed.mem[1].size, parsed.mem[1].U2)

\* a kB line whose used number fits and whose total saturates
C33_Witness ==
    /\ is_some(parsed.iram)
    /\ parsed.mem[1].U = "k"
    /\ parsed.mem[1].used = U64(1023, 1023, 1023, 1023, 1023, 15, 0)
    /\ parsed.iram[1].used_bytes = U64(0, 1023, 1023, 1023, 1023, 1023, 15)
    /\ parsed.iram[1].total_bytes = U64Max
    /\ parsed.iram[1].second_bytes = U64(0, 0, 3, 0, 0, 0, 0)

Held(t) == {m \in Mutexes : thr.owner[m] = t}

\* C34: no daemon thread ever holds two of the four shared-state locks at
\* the same time.
C34_NeverTwoLocks ==
    \A t \in Threads : Cardinality(Held(t)) <= 1

\* thread t has requested a mutex and does not own it yet
Waiting(t) == thr.t[t].todo # <<>> /\ Head(thr.t[t].todo).op = "acq"

\* C37: the daemon cannot deadlock on its shared-state locks: under every
\* interleaving of the connection workers, the collector-drain task, the
\* telemetry logger and the HTTP metrics task, a thread that requests a lock
\* eventually acquires it.
C37_LockEventuallyAcquired ==
    \A t \in Threads : Waiting(t) ~> ~Waiting(t)

\* a worker that owns the control manager waits for the health tracker,
\* which another thread owns
C37_Witness ==
    \E t \in WorkerThreads :
        /\ thr.owner["control"] = t
        /\ Waiting(t) /\ Head(thr.t[t].todo).arg = "health"
        /\ thr.owner["health"] \notin {"", t}

\* C38: the (source, data) pair of a Stats response is a consistent
\* snapshot: at some instant during the handling of that GetStats the label
\* slot held source and the snapshot slot held data at the same time.
C38_StatsPairConsistent ==
    \A t \in WorkerThreads :
        (thr.t[t].job = "GetStats" /\ thr.t[t].answered) =>
            <<thr.t[t].source, thr.t[t].data>> \in thr.t[t].instants

\* C36: no request handler modifies the snapshot slot or the source label:
\* a step of a connection worker leaves both as they were (only the
\* collector-drain task writes them).
C36_HandlersLeaveSlotAndLabel ==
    [][\A t \in Threads \ {"drain"} : Step(t) => UNCHANGED <<latest_stats, source_label>>]_vars

\* a worker has answered a request while the slot holds a snapshot and the
\* label is no longer the initial one
C36_Witness ==
    /\ \E t \in WorkerThreads : thr.t[t].answered
    /\ latest_stats # None
    /\ source_label # "initializing"

\* the time slept at the end of the trace, in milliseconds
RECURSIVE SleptLast(_)
SleptLast(trace) ==
    IF trace = <<>> \/ trace[Len(trace)].type # "sleep" THEN 0
    ELSE trace[Len(trace)].ms + SleptLast(SubSeq(trace, 1, Len(trace) - 1))

\* min(2^(k-1), 10) seconds, in milliseconds
Backoff(k) == IF k >= 5 THEN 10000 ELSE (2 ^ (k - 1)) * 1000

\* C35: in the socket source the wait after the k-th consecutive failed
\* poll is min(2^(k-1), 10) seconds, and the time between two consecutive
\* failed connection attempts equals that backoff value: when the next
\* attempt is due, the collector has slept exactly that long since the
\* failure.
C35_BackoffBetweenFailedAttempts ==
    (coll.pc = "socket" /\ coll.retry_count > 0) =>
        SleptLast(coll.trace) = Backoff(coll.retry_count)

\* C39: a SetControl rejected with auth_failed has no effect on the control
\* manager: no mutator and no host action is invoked and the whole
\* ControlStatus, last_error included, is the one before the request; of the
\* health tracker only total_requests, errors and last_error change.
C39_AuthFailedLeavesControl ==
    (IsSetControl /\ IsError("auth_failed")) =>
        /\ control.status = last.pre
        /\ last.log = <<>>
        /\ ~last.host_failed
        /\ health = [last.pre_health EXCEPT
                         !.total_requests = @ + 1,
                         !.errors = @ + 1,
                         !.last_error = Some(Msg("Auth failed (set JETSONSCOPE_AUTH_TOKEN)",
                                                 V_empty))]

\* a rejected SetControl after a snapshot was collected and after an
\* authorized SetControl left an error in the status
C39_Witness ==
    /\ IsSetControl /\ IsError("auth_failed")
    /\ is_some(control.status.last_error)
    /\ health.stats_collected > 0

\* C40: when a child-process source fails to spawn or its output ends, the
\* collector emits SourceLabel(synthetic generator) and from then on emits
\* synthetic Stats, one after the other as long as it runs; once the
\* synthetic generator has started the collector never returns to a socket
\* or child-process source and emits no further SourceLabel or Error.
C40_NeverSilent ==
    /\ [][(coll.pc = "command" /\ coll'.pc # "command") =>
             /\ coll'.pc = "synthetic"
             /\ coll'.trace = coll.trace \o <<Sent("SourceLabel", "synthetic generator")>>]_vars
    /\ [][coll.pc = "synthetic" => coll'.pc = "synthetic"]_vars
    /\ [](coll.pc = "synthetic" =>
             /\ Len(SyntheticPart) = 2 * coll.ticks
             /\ \A i \in 1..Len(SyntheticPart) :
                    SyntheticPart[i] \in {Sent("Stats", "synthetic"), Slept(Interval)})
    /\ (coll.pc = "synthetic") ~> (coll.pc = "synthetic" /\ coll.ticks = MaxTicks)

\* the child's output has ended after a line was read, and the synthetic
\* generator has sent its snapshots
C40_Witness ==
    /\ coll.kind = "Command" /\ coll.polls > 0
    /\ coll.pc = "synthetic" /\ coll.ticks = MaxTicks

====
